---- MODULE Spec2Model ----
(***************************************************************************)
(* Module selection (scripts/lib/install_helpers.sh, scripts/lib/          *)
(* selection library), manifest validation (packages/manifest parser) and  *)
(* the checkpointed phase driver (reliability roadmap, section 1 and 3)    *)
(* of the ACFS installer.                                                  *)
(***************************************************************************)
EXTENDS Integers, Sequences, FiniteSets, TLC

(***************************************************************************)
(* Bounds of the model.                                                    *)
(***************************************************************************)
\* longest dependency list of one module
MaxDeps == 2
\* most dependency edges in one manifest
MaxEdges == 3
\* most --only / --only-phase arguments on one command line
MaxOnly == 1
\* most --skip / --skip-tag / --skip-category arguments on one command line
MaxSkip == 1
\* most modules with enabled_by_default: false in one manifest
MaxNonDefault == 1
\* most calls of acfs_resolve_selection in one process
MaxCalls == 2

(***************************************************************************)
(* Sequence helpers.                                                       *)
(***************************************************************************)
Range(s) == {s[i] : i \in 1..Len(s)}

NoDup(s) == \A i, j \in 1..Len(s) : i # j => s[i] # s[j]

SeqsUpTo(S, n) == UNION {[1..k -> S] : k \in 0..n}

\* the subsequence of s whose elements are in S, in the order of s
Restrict(s, S) == SelectSeq(s, LAMBDA x : x \in S)

IndexOf(s, x) == CHOOSE i \in 1..Len(s) : s[i] = x

(***************************************************************************)
(* The manifest index: the arrays manifest_index.sh defines and the        *)
(* resolver reads.  Ids are listed in manifest declaration order.          *)
(***************************************************************************)
ACFS_MODULES_IN_ORDER == <<"base.system", "lang.bun", "agents.claude">>

ModuleSet == Range(ACFS_MODULES_IN_ORDER)

\* an id no manifest declares (a typo on the command line)
UnknownModule == "lang.nope"

\* category: the first dotted segment of the id
ACFS_MODULE_CATEGORY ==
    [m \in ModuleSet |->
        CASE m = "base.system" -> "base"
          [] m = "lang.bun" -> "lang"
          [] m = "agents.claude" -> "agents"]

ACFS_MODULE_TAGS ==
    [m \in ModuleSet |->
        CASE m = "base.system" -> <<>>
          [] m = "lang.bun" -> <<"runtime">>
          [] m = "agents.claude" -> <<"agent", "optional">>]

\* phase assignments: Scenario A's (1, 2, 2) and one not sorted by phase
PhaseProfiles ==
    { [m \in ModuleSet |-> IF m = "base.system" THEN 1 ELSE 2],
      [m \in ModuleSet |-> IF m = "lang.bun" THEN 1 ELSE 2] }

DepLists == {d \in SeqsUpTo(ModuleSet, MaxDeps) : NoDup(d)}

RECURSIVE SumLen(_, _)
SumLen(f, S) ==
    IF S = {} THEN 0
    ELSE LET x == CHOOSE y \in S : TRUE IN Len(f[x]) + SumLen(f, S \ {x})

DepGraphs ==
    {g \in [ModuleSet -> DepLists] :
        /\ \A m \in ModuleSet : m \notin Range(g[m])
        /\ SumLen(g, ModuleSet) <= MaxEdges}

Manifests ==
    {[phase |-> p, deps |-> g, enabled |-> [m \in ModuleSet |-> m \notin off]] :
        p \in PhaseProfiles, g \in DepGraphs,
        off \in {s \in SUBSET ModuleSet : Cardinality(s) <= MaxNonDefault}}

NoManifest ==
    [phase |-> [m \in ModuleSet |-> 1], deps |-> [m \in ModuleSet |-> <<>>],
     enabled |-> [m \in ModuleSet |-> TRUE]]

(***************************************************************************)
(* Selection input: the globals parse_args fills.                          *)
(***************************************************************************)
KnownTags == {"optional", "runtime"}
KnownCategories == {"lang", "agents"}
PhaseArgs == {1, 2, 3}

OnlyArgs ==
    {[only |-> o, phases |-> p] :
        o \in SeqsUpTo(ModuleSet \cup {UnknownModule}, MaxOnly),
        p \in SeqsUpTo(PhaseArgs, MaxOnly)}

SkipArgs ==
    {[skip |-> s, tags |-> t, cats |-> c] :
        s \in SeqsUpTo(ModuleSet \cup {UnknownModule}, MaxSkip),
        t \in SeqsUpTo(KnownTags, MaxSkip),
        c \in SeqsUpTo(KnownCategories, MaxSkip)}

SelectionInputs ==
    {[ONLY_MODULES |-> o.only, ONLY_PHASES |-> o.phases, SKIP_MODULES |-> s.skip,
      SKIP_TAGS |-> s.tags, SKIP_CATEGORIES |-> s.cats, NO_DEPS |-> n] :
        o \in {x \in OnlyArgs : Len(x.only) + Len(x.phases) <= MaxOnly},
        s \in {x \in SkipArgs : Len(x.skip) + Len(x.tags) + Len(x.cats) <= MaxSkip},
        n \in BOOLEAN}

NoInput ==
    [ONLY_MODULES |-> <<>>, ONLY_PHASES |-> <<>>, SKIP_MODULES |-> <<>>,
     SKIP_TAGS |-> <<>>, SKIP_CATEGORIES |-> <<>>, NO_DEPS |-> FALSE]

\* the orders in which bash may enumerate the keys of an associative array
KeyOrders == {s \in [1..Len(ACFS_MODULES_IN_ORDER) -> ModuleSet] : NoDup(s)}

(***************************************************************************)
(* acfs_resolve_selection (install_helpers.sh).  An associative array is   *)
(* a function on ModuleSet; Unset stands for an unset or empty entry,      *)
(* which every test of the code ("-n", "-z" on "${a[k]:-}") treats alike.  *)
(* Reasons are the words of the message: "dependency of X" is              *)
(* <<"dependency of", X>>.                                                 *)
(***************************************************************************)
Unset == <<>>

EmptyMap == [m \in ModuleSet |-> Unset]

NoErr == [kind |-> "none", module |-> "", dep |-> "", chain |-> <<>>]

Err(k, m, d, c) == [kind |-> k, module |-> m, dep |-> d, chain |-> c]

\* the keys of an associative array, in the order bash enumerates them
KeysInOrder(keys, order) == Restrict(order, keys)

DepsOf(man, m) == IF m \in ModuleSet THEN man.deps[m] ELSE <<>>

\* an existence check that lets the unknown id through
module_exists_any == ModuleSet \cup {UnknownModule}

module_exists == ModuleSet

phase_exists(man) == {man.phase[m] : m \in ModuleSet}

\* the first element of s that is not in Good
FirstNotIn(s, Good) ==
    s[CHOOSE i \in 1..Len(s) : s[i] \notin Good /\ \A j \in 1..(i - 1) : s[j] \in Good]

\* lines 68-106: the start set, its reasons, and "disabled by default"
StartSet(man, inp) ==
    IF Len(inp.ONLY_MODULES) > 0
    THEN IF Range(inp.ONLY_MODULES) \subseteq module_exists
         THEN [err |-> NoErr, desired |-> Range(inp.ONLY_MODULES),
               start_reason |-> [m \in ModuleSet |->
                   IF m \in Range(inp.ONLY_MODULES)
                   THEN <<"explicitly requested">> ELSE Unset],
               exclude |-> EmptyMap]
         ELSE [err |-> Err("unknown-only", FirstNotIn(inp.ONLY_MODULES, module_exists),
                           "", <<>>),
               desired |-> {}, start_reason |-> EmptyMap, exclude |-> EmptyMap]
    ELSE IF Len(inp.ONLY_PHASES) > 0
    THEN IF Range(inp.ONLY_PHASES) \subseteq phase_exists(man)
         THEN [err |-> NoErr,
               desired |-> {m \in ModuleSet : man.phase[m] \in Range(inp.ONLY_PHASES)},
               start_reason |-> [m \in ModuleSet |->
                   IF man.phase[m] \in Range(inp.ONLY_PHASES)
                   THEN <<"phase", ToString(man.phase[m])>> ELSE Unset],
               exclude |-> EmptyMap]
         ELSE [err |-> Err("unknown-phase",
                           ToString(FirstNotIn(inp.ONLY_PHASES, phase_exists(man))),
                           "", <<>>),
               desired |-> {}, start_reason |-> EmptyMap, exclude |-> EmptyMap]
    ELSE [err |-> NoErr,
          desired |-> {m \in ModuleSet : man.enabled[m]},
          start_reason |-> [m \in ModuleSet |->
              IF man.enabled[m] THEN <<"default">> ELSE Unset],
          exclude |-> [m \in ModuleSet |->
              IF man.enabled[m] THEN Unset ELSE <<"disabled by default">>]]

HasTag(m, t) == t \in Range(ACFS_MODULE_TAGS[m])

\* lines 108-156: the skip set
SkipSet(inp) ==
    {m \in ModuleSet :
        \/ m \in Range(inp.SKIP_MODULES)
        \/ \E t \in Range(inp.SKIP_TAGS) : HasTag(m, t)
        \/ ACFS_MODULE_CATEGORY[m] \in Range(inp.SKIP_CATEGORIES)}

\* lines 117-153: the first reason written for a module stays
SkipReason(inp, m) ==
    IF m \in Range(inp.SKIP_MODULES) THEN <<"explicitly skipped">>
    ELSE IF \E t \in Range(inp.SKIP_TAGS) : HasTag(m, t)
    THEN <<"skipped tag",
           inp.SKIP_TAGS[CHOOSE i \in 1..Len(inp.SKIP_TAGS) :
               /\ HasTag(m, inp.SKIP_TAGS[i])
               /\ \A j \in 1..(i - 1) : ~HasTag(m, inp.SKIP_TAGS[j])]>>
    ELSE IF ACFS_MODULE_CATEGORY[m] \in Range(inp.SKIP_CATEGORIES)
    THEN <<"skipped category", ACFS_MODULE_CATEGORY[m]>>
    ELSE Unset

\* lines 158-165: skipped modules leave the start set and get their reason
ApplySkipsKeep(inp, start) ==
    LET skip_set == SkipSet(inp) IN
    [start EXCEPT
        !.exclude = [m \in ModuleSet |->
            IF m \in skip_set /\ (m \in start.desired \/ start.exclude[m] = Unset)
            THEN SkipReason(inp, m) ELSE start.exclude[m]]]

ApplySkips(inp, start) ==
    LET skip_set == SkipSet(inp) IN
    [start EXCEPT
        !.desired = start.desired \ skip_set,
        !.exclude = [m \in ModuleSet |->
            IF m \in skip_set /\ (m \in start.desired \/ start.exclude[m] = Unset)
            THEN SkipReason(inp, m) ELSE start.exclude[m]]]

\* a search that looks at the direct dependencies only
RECURSIVE acfs_find_skipped_dep_direct(_, _, _, _, _, _)
acfs_find_skipped_dep_direct(man, skip_set, current, path, i, visited) ==
    LET deps == DepsOf(man, current) IN
    IF i > Len(deps)
    THEN [found |-> FALSE, dep |-> "", chain |-> <<>>, visited |-> visited]
    ELSE IF deps[i] \in skip_set
    THEN [found |-> TRUE, dep |-> deps[i], chain |-> Append(path, deps[i]),
          visited |-> visited]
    ELSE acfs_find_skipped_dep_direct(man, skip_set, current, path, i + 1, visited)

\* a search that reports the chain without the modules it went through
RECURSIVE acfs_find_skipped_dep_flat(_, _, _, _, _, _)
acfs_find_skipped_dep_flat(man, skip_set, current, path, i, visited) ==
    LET deps == DepsOf(man, current) IN
    IF i > Len(deps)
    THEN [found |-> FALSE, dep |-> "", chain |-> <<>>, visited |-> visited]
    ELSE LET dep == deps[i] IN
         IF dep \in skip_set
         THEN [found |-> TRUE, dep |-> dep, chain |-> Append(path, dep),
               visited |-> visited]
         ELSE IF dep \in visited
         THEN acfs_find_skipped_dep_flat(man, skip_set, current, path, i + 1, visited)
         ELSE LET r == acfs_find_skipped_dep_flat(man, skip_set, dep, path, 1,
                                                  visited \cup {dep}) IN
              IF r.found THEN r
              ELSE acfs_find_skipped_dep_flat(man, skip_set, current, path, i + 1,
                                              r.visited)

\* lines 169-192: depth-first search for a skipped dependency of current;
\* visited is shared by the whole search of one start module
RECURSIVE acfs_find_skipped_dep(_, _, _, _, _, _)
acfs_find_skipped_dep(man, skip_set, current, path, i, visited) ==
    LET deps == DepsOf(man, current) IN
    IF i > Len(deps)
    THEN [found |-> FALSE, dep |-> "", chain |-> <<>>, visited |-> visited]
    ELSE LET dep == deps[i] IN
         IF dep \in skip_set
         THEN [found |-> TRUE, dep |-> dep, chain |-> Append(path, dep),
               visited |-> visited]
         ELSE IF dep \in visited
         THEN acfs_find_skipped_dep(man, skip_set, current, path, i + 1, visited)
         ELSE LET r == acfs_find_skipped_dep(man, skip_set, dep, Append(path, dep), 1,
                                             visited \cup {dep}) IN
              IF r.found THEN r
              ELSE acfs_find_skipped_dep(man, skip_set, current, path, i + 1, r.visited)

\* lines 194-205: the check before closure, over the keys of desired
RECURSIVE PreClosureCheck(_, _, _, _)
PreClosureCheck(man, skip_set, keys, i) ==
    IF i > Len(keys) THEN NoErr
    ELSE LET r == acfs_find_skipped_dep(man, skip_set, keys[i], <<keys[i]>>, 1, {keys[i]}) IN
         IF r.found THEN Err("depends-on-skipped", keys[i], r.dep, r.chain)
         ELSE PreClosureCheck(man, skip_set, keys, i + 1)

\* a closure that does not queue the dependencies it adds
RECURSIVE ClosureDepsNoEnqueue(_, _, _, _, _)
ClosureDepsNoEnqueue(skip_set, current, deps, j, st) ==
    IF j > Len(deps) THEN st
    ELSE LET dep == deps[j] IN
         IF dep \in skip_set
         THEN [st EXCEPT !.err = Err("depends-on-skipped", current, dep, <<>>)]
         ELSE IF dep \notin module_exists
         THEN [st EXCEPT !.err = Err("unknown-dependency", current, dep, <<>>)]
         ELSE IF dep \notin st.desired
         THEN ClosureDepsNoEnqueue(skip_set, current, deps, j + 1,
                  [st EXCEPT !.desired = @ \cup {dep},
                             !.start_reason[dep] =
                                 IF @ = Unset THEN <<"dependency of", current>> ELSE @])
         ELSE ClosureDepsNoEnqueue(skip_set, current, deps, j + 1, st)

\* lines 222-240: the dependencies of one queue entry
RECURSIVE ClosureDeps(_, _, _, _, _)
ClosureDeps(skip_set, current, deps, j, st) ==
    IF j > Len(deps) THEN st
    ELSE LET dep == deps[j] IN
         IF dep \in skip_set
         THEN [st EXCEPT !.err = Err("depends-on-skipped", current, dep, <<>>)]
         ELSE IF dep \notin module_exists
         THEN [st EXCEPT !.err = Err("unknown-dependency", current, dep, <<>>)]
         ELSE IF dep \notin st.desired
         THEN ClosureDeps(skip_set, current, deps, j + 1,
                  [st EXCEPT !.desired = @ \cup {dep},
                             !.start_reason[dep] =
                                 IF @ = Unset THEN <<"dependency of", current>> ELSE @,
                             !.queue = Append(@, dep)])
         ELSE ClosureDeps(skip_set, current, deps, j + 1, st)

\* lines 210-241: breadth-first closure over the work queue
RECURSIVE Closure(_, _, _, _)
Closure(man, skip_set, idx, st) ==
    IF idx > Len(st.queue) THEN st
    ELSE LET current == st.queue[idx]
             st2 == ClosureDeps(skip_set, current, DepsOf(man, current), 1, st) IN
         IF st2.err.kind # "none" THEN st2 ELSE Closure(man, skip_set, idx + 1, st2)

\* lines 244-268: the plan in manifest order, and the reasons
\* a plan emission without line 246: a module that is in the plan keeps the
\* exclusion reason written for it earlier in the call
EmitPlanKeepsExclude(inp, desired, start_reason, exclude) ==
    [rc |-> 0,
     ACFS_EFFECTIVE_PLAN |-> Restrict(ACFS_MODULES_IN_ORDER, desired),
     ACFS_EFFECTIVE_RUN |-> {m \in ModuleSet : m \in desired},
     ACFS_PLAN_REASON |-> [m \in ModuleSet |->
         IF m \in desired
         THEN IF start_reason[m] # Unset THEN start_reason[m] ELSE <<"included">>
         ELSE Unset],
     ACFS_PLAN_EXCLUDE_REASON |-> [m \in ModuleSet |->
         IF exclude[m] # Unset THEN exclude[m]
         ELSE IF m \in desired THEN Unset
         ELSE IF Len(inp.ONLY_MODULES) > 0 THEN <<"not selected">>
         ELSE IF Len(inp.ONLY_PHASES) > 0 THEN <<"filtered by phase">>
         ELSE <<"not selected">>],
     err |-> NoErr,
     warned |-> inp.NO_DEPS]

EmitPlan(inp, desired, start_reason, exclude) ==
    [rc |-> 0,
     ACFS_EFFECTIVE_PLAN |-> Restrict(ACFS_MODULES_IN_ORDER, desired),
     ACFS_EFFECTIVE_RUN |-> {m \in ModuleSet : m \in desired},
     ACFS_PLAN_REASON |-> [m \in ModuleSet |->
         IF m \in desired
         THEN IF start_reason[m] # Unset THEN start_reason[m] ELSE <<"included">>
         ELSE Unset],
     ACFS_PLAN_EXCLUDE_REASON |-> [m \in ModuleSet |->
         IF m \in desired THEN Unset
         ELSE IF exclude[m] # Unset THEN exclude[m]
         ELSE IF Len(inp.ONLY_MODULES) > 0 THEN <<"not selected">>
         ELSE IF Len(inp.ONLY_PHASES) > 0 THEN <<"filtered by phase">>
         ELSE <<"not selected">>],
     err |-> NoErr,
     warned |-> inp.NO_DEPS]

\* a return 1: the outputs were cleared on entry, the exclusion reasons
\* written so far stay
Failed(err, exclude) ==
    [rc |-> 1, ACFS_EFFECTIVE_PLAN |-> <<>>, ACFS_EFFECTIVE_RUN |-> {},
     ACFS_PLAN_REASON |-> EmptyMap, ACFS_PLAN_EXCLUDE_REASON |-> exclude,
     err |-> err, warned |-> FALSE]

\* a resolver that runs dependency closure with --no-deps too
acfs_resolve_selection_closing(man, inp, order) ==
    LET start == StartSet(man, inp) IN
    IF start.err.kind # "none" THEN Failed(start.err, start.exclude)
    ELSE IF ~(Range(inp.SKIP_MODULES) \subseteq module_exists)
    THEN Failed(Err("unknown-skip", FirstNotIn(inp.SKIP_MODULES, module_exists), "", <<>>),
                start.exclude)
    ELSE
    LET skip_set == SkipSet(inp)
        kept == ApplySkips(inp, start)
        keys == KeysInOrder(kept.desired, order)
        pre == PreClosureCheck(man, skip_set, keys, 1) IN
    IF pre.kind # "none" THEN Failed(pre, kept.exclude)
    ELSE LET closed == Closure(man, skip_set, 1,
                 [desired |-> kept.desired, start_reason |-> kept.start_reason,
                  queue |-> keys, err |-> NoErr]) IN
         IF closed.err.kind # "none" THEN Failed(closed.err, kept.exclude)
         ELSE EmitPlan(inp, closed.desired, closed.start_reason, kept.exclude)

\* lines 42-269; order is the order in which bash enumerates "${!desired[@]}"
acfs_resolve_selection(man, inp, order) ==
    LET start == StartSet(man, inp) IN
    IF start.err.kind # "none" THEN Failed(start.err, start.exclude)
    ELSE IF ~(Range(inp.SKIP_MODULES) \subseteq module_exists)
    THEN Failed(Err("unknown-skip", FirstNotIn(inp.SKIP_MODULES, module_exists), "", <<>>),
                start.exclude)
    ELSE
    LET skip_set == SkipSet(inp)
        sel == ApplySkips(inp, start)
        keys == KeysInOrder(sel.desired, order)
        pre == PreClosureCheck(man, skip_set, keys, 1) IN
    IF pre.kind # "none" THEN Failed(pre, sel.exclude)
    ELSE IF inp.NO_DEPS
    THEN EmitPlan(inp, sel.desired, sel.start_reason, sel.exclude)
    ELSE LET closed == Closure(man, skip_set, 1,
                 [desired |-> sel.desired, start_reason |-> sel.start_reason,
                  queue |-> keys, err |-> NoErr]) IN
         IF closed.err.kind # "none" THEN Failed(closed.err, sel.exclude)
         ELSE EmitPlan(inp, closed.desired, closed.start_reason, sel.exclude)

\* the outputs before the first call (lines 37-40)
NoOutcome ==
    [rc |-> 0, ACFS_EFFECTIVE_PLAN |-> <<>>, ACFS_EFFECTIVE_RUN |-> {},
     ACFS_PLAN_REASON |-> EmptyMap, ACFS_PLAN_EXCLUDE_REASON |-> EmptyMap,
     err |-> NoErr, warned |-> FALSE]

(***************************************************************************)
(* The selection library (scripts/lib/selection.sh): the other definition  *)
(* of acfs_resolve_selection.  It reads ONLY_MODULES, ONLY_PHASES,         *)
(* SKIP_MODULES and NO_DEPS, and writes ACFS_EFFECTIVE_PLAN and            *)
(* ACFS_EFFECTIVE_RUN only.                                                *)
(***************************************************************************)
selection_is_valid_module(man, module_id) == module_id \in ModuleSet

selection_is_valid_phase(man, phase) == \E m \in ModuleSet : man.phase[m] = phase

selection_get_deps(man, module_id) == DepsOf(man, module_id)

ModulesInPhase(man, phase) ==
    SelectSeq(ACFS_MODULES_IN_ORDER, LAMBDA m : man.phase[m] = phase)

RECURSIVE PhaseStartSet(_, _, _)
PhaseStartSet(man, phases, i) ==
    IF i > Len(phases) THEN <<>>
    ELSE ModulesInPhase(man, phases[i]) \o PhaseStartSet(man, phases, i + 1)

\* the recursive visit of _selection_compute_closure: the visited set
RECURSIVE closure_visit(_, _, _)
RECURSIVE closure_visit_all(_, _, _, _)
closure_visit(man, module_id, visited) ==
    IF module_id \in visited THEN visited
    ELSE closure_visit_all(man, selection_get_deps(man, module_id), 1,
                           visited \cup {module_id})
closure_visit_all(man, ids, i, visited) ==
    IF i > Len(ids) THEN visited
    ELSE closure_visit_all(man, ids, i + 1, closure_visit(man, ids[i], visited))

selection_compute_closure(man, input_set) ==
    Restrict(ACFS_MODULES_IN_ORDER, closure_visit_all(man, input_set, 1, {}))

SeqWithout(s, S) == SelectSeq(s, LAMBDA x : x \notin S)

\* the first module of the plan with a skipped dependency, as an error
selection_validate_skips(man, plan, skips) ==
    LET Bad(m) == \E k \in 1..Len(selection_get_deps(man, m)) :
                      selection_get_deps(man, m)[k] \in Range(skips)
        bad == {i \in 1..Len(plan) : plan[i] \notin Range(skips) /\ Bad(plan[i])} IN
    IF bad = {} THEN NoErr
    ELSE LET i == CHOOSE x \in bad : \A y \in bad : x <= y
             deps == selection_get_deps(man, plan[i])
             k == CHOOSE x \in 1..Len(deps) :
                      deps[x] \in Range(skips) /\ \A y \in 1..(x - 1) : deps[y] \notin Range(skips)
         IN Err("depends-on-skipped", plan[i], deps[k], <<plan[i], deps[k]>>)

\* a return 1 of the library: it has written no output
LibFailed(old, err) == [old EXCEPT !.rc = 1, !.err = err, !.warned = FALSE]

selection_resolve(man, inp, old) ==
    IF Len(inp.ONLY_MODULES) > 0 /\ ~(Range(inp.ONLY_MODULES) \subseteq ModuleSet)
    THEN LibFailed(old, Err("unknown-only", FirstNotIn(inp.ONLY_MODULES, ModuleSet), "", <<>>))
    ELSE IF Len(inp.ONLY_MODULES) = 0 /\ Len(inp.ONLY_PHASES) > 0
            /\ \E i \in 1..Len(inp.ONLY_PHASES) : ~selection_is_valid_phase(man, inp.ONLY_PHASES[i])
    THEN LibFailed(old, Err("unknown-phase",
             ToString(FirstNotIn(inp.ONLY_PHASES, phase_exists(man))), "", <<>>))
    ELSE IF ~(Range(inp.SKIP_MODULES) \subseteq ModuleSet)
    THEN LibFailed(old, Err("unknown-skip", FirstNotIn(inp.SKIP_MODULES, ModuleSet), "", <<>>))
    ELSE
    LET start_set == IF Len(inp.ONLY_MODULES) > 0 THEN inp.ONLY_MODULES
                     ELSE IF Len(inp.ONLY_PHASES) > 0
                     THEN PhaseStartSet(man, inp.ONLY_PHASES, 1)
                     ELSE SelectSeq(ACFS_MODULES_IN_ORDER, LAMBDA m : man.enabled[m])
        work_set == SeqWithout(start_set, Range(inp.SKIP_MODULES))
        closed == IF inp.NO_DEPS THEN work_set
                  ELSE selection_compute_closure(man, work_set)
        final_plan == SeqWithout(closed, Range(inp.SKIP_MODULES))
        check == IF Len(inp.SKIP_MODULES) > 0
                 THEN selection_validate_skips(man, final_plan, inp.SKIP_MODULES)
                 ELSE NoErr IN
    IF check.kind # "none" THEN LibFailed(old, check)
    ELSE [old EXCEPT !.rc = 0, !.err = NoErr, !.warned = inp.NO_DEPS,
                     !.ACFS_EFFECTIVE_PLAN = final_plan,
                     !.ACFS_EFFECTIVE_RUN = Range(final_plan)]

(***************************************************************************)
(* validateManifest and detectDependencyCycles (packages/manifest parser). *)
(* data.modules is the sequence of the manifest's modules.                 *)
(***************************************************************************)
ManifestModules(man) ==
    [i \in 1..Len(ACFS_MODULES_IN_ORDER) |->
        [id |-> ACFS_MODULES_IN_ORDER[i],
         phase |-> man.phase[ACFS_MODULES_IN_ORDER[i]],
         dependencies |-> man.deps[ACFS_MODULES_IN_ORDER[i]]]]

\* new Map(modules.map(m => [m.id, m])): the last module with an id wins
moduleMapHas(modules, id) == \E i \in 1..Len(modules) : modules[i].id = id

moduleMapGet(modules, id) ==
    modules[CHOOSE i \in 1..Len(modules) :
        modules[i].id = id /\ \A j \in (i + 1)..Len(modules) : modules[j].id # id]

\* hasCycle: visited always holds exactly the ids of path (added and pushed,
\* deleted and popped together); the result is the cycle, <<>> for null
RECURSIVE hasCycle(_, _, _)
RECURSIVE hasCycleDeps(_, _, _, _)
\* a hasCycle that returns the whole path walked, not the part from the
\* first visit of the repeated id
hasCycleWholePath(modules, moduleId, path) ==
    IF moduleId \in Range(path)
    THEN path
    ELSE IF ~moduleMapHas(modules, moduleId) THEN <<>>
    ELSE hasCycleDeps(modules, moduleMapGet(modules, moduleId).dependencies, 1,
                      Append(path, moduleId))

hasCycle(modules, moduleId, path) ==
    IF moduleId \in Range(path)
    THEN SubSeq(path, CHOOSE i \in 1..Len(path) : path[i] = moduleId, Len(path))
    ELSE IF ~moduleMapHas(modules, moduleId) THEN <<>>
    ELSE hasCycleDeps(modules, moduleMapGet(modules, moduleId).dependencies, 1,
                      Append(path, moduleId))
hasCycleDeps(modules, deps, i, path) ==
    IF i > Len(deps) THEN <<>>
    ELSE LET cycle == hasCycle(modules, deps[i], path) IN
         IF cycle # <<>> THEN cycle ELSE hasCycleDeps(modules, deps, i + 1, path)

\* a search for cycles that starts at the first module only
detectDependencyCyclesFirstOnly(modules) ==
    IF hasCycle(modules, modules[1].id, <<>>) = <<>> THEN <<>>
    ELSE <<[path |-> modules[1].id, kind |-> "cycle",
            value |-> hasCycle(modules, modules[1].id, <<>>)]>>

\* the errors of detectDependencyCycles: the first cycle found, if any
detectDependencyCycles(modules) ==
    LET found == {i \in 1..Len(modules) : hasCycle(modules, modules[i].id, <<>>) # <<>>} IN
    IF found = {} THEN <<>>
    ELSE LET i == CHOOSE x \in found : \A y \in found : x <= y IN
         <<[path |-> modules[i].id, kind |-> "cycle",
            value |-> hasCycle(modules, modules[i].id, <<>>)]>>

\* the errors of validateManifest on a schema-valid manifest
DuplicateIdErrors(modules) ==
    LET dup == SelectSeq([i \in 1..Len(modules) |-> i],
                         LAMBDA i : \E j \in 1..(i - 1) : modules[j].id = modules[i].id) IN
    [k \in 1..Len(dup) |->
        [path |-> "modules", kind |-> "duplicate", value |-> <<modules[dup[k]].id>>]]

RECURSIVE MissingDependencyErrors(_, _, _)
MissingDependencyErrors(modules, i, k) ==
    IF i > Len(modules) THEN <<>>
    ELSE IF k > Len(modules[i].dependencies)
    THEN MissingDependencyErrors(modules, i + 1, 1)
    ELSE (IF moduleMapHas(modules, modules[i].dependencies[k]) THEN <<>>
          ELSE <<[path |-> modules[i].id, kind |-> "unknown-dependency",
                  value |-> <<modules[i].dependencies[k]>>]>>)
         \o MissingDependencyErrors(modules, i, k + 1)

validateManifest(modules) ==
    LET errors == DuplicateIdErrors(modules) \o MissingDependencyErrors(modules, 1, 1)
                  \o detectDependencyCycles(modules) IN
    [valid |-> Len(errors) = 0, errors |-> errors]

(***************************************************************************)
(* State.                                                                  *)
(***************************************************************************)
VARIABLES
    ACFS_MANIFEST_INDEX_LOADED, \* manifest_index.sh has been sourced
    resolver,                   \* the library whose acfs_resolve_selection is defined
    manifest,                   \* ACFS_MODULE_PHASE, ACFS_MODULE_DEPS, ACFS_MODULE_DEFAULT
    parsed,                     \* parse_args has set the selection globals
    input,                      \* ONLY_MODULES, ONLY_PHASES, SKIP_*, NO_DEPS
    sel,                        \* ACFS_EFFECTIVE_*, ACFS_PLAN_* and the status of the last call
    ncalls,                     \* calls of acfs_resolve_selection so far
    prev                        \* <<outcome>> of the call before the last one

selVars == <<ACFS_MANIFEST_INDEX_LOADED, resolver, manifest, parsed, input, sel, ncalls, prev>>

VARIABLES
    disk,      \* $ACFS_HOME/state.json
    sh,        \* the shell variables of the installer process
    pc,        \* where the installer process is; "off" when none runs
    wr,        \* "open" while save_state has truncated the file and cat has not written
    phase_num, \* the phase of the run_phase call main is at
    step,      \* the step of the phase function that is next
    YES_MODE,  \* --yes was given to this invocation
    rc,        \* how the last invocation ended: "0", "1", "killed", or "none"
    runs,      \* invocations so far
    hist       \* what this invocation has done (observed, never read by the engine)

engineVars == <<disk, sh, pc, wr, phase_num, step, YES_MODE, rc, runs, hist>>

VARIABLES
    vr,            \* the last call of verify_and_run_with_recovery and what it did
    SKIPPED_TOOLS, \* the tools skipped on a checksum mismatch
    nverify,       \* calls of verify_and_run_with_recovery so far
    report         \* the tools report_skipped_tools has listed, <<"none">> before it ran

execVars == <<vr, SKIPPED_TOOLS, nverify, report>>

VARIABLES
    data,          \* the manifest data handed to validateManifest
    validation     \* the ValidationResult of the last call, <<>> before it

valVars == <<data, validation>>

VARIABLES
    env,             \* what the shell that sourced a generated script has: EUID, SUDO, sudo,
                     \* run_as_target, acfs_require_contract's answer, the skip recorder
    DRY_RUN,         \* the DRY_RUN variable of that shell
    fn,              \* the module function that is running or ran last, "none" before
    fpc,             \* where it is: "idle", "entry", "dry_run", "step", "returned"
    fstep,           \* the action of the function that is next
    flog,            \* the log lines of this call
    fctx,            \* the runner calls of this call, in order
    frc,             \* the return status of the call, -1 while there is none
    SKIPPED_MODULES, \* the modules recorded as skipped
    nfn              \* calls of module functions so far

modVars == <<env, DRY_RUN, fn, fpc, fstep, flog, fctx, frc, SKIPPED_MODULES, nfn>>

VARIABLES
    oca_pc,        \* where each shell is in oca; "idle" when it runs none
    server_pid,    \* oca's local server_pid in each shell, 0 while unset
    servers,       \* the servers started for the project, in order (observed)
    live,          \* the pids of the servers that are running
    pid_file,      \* the pid in .acfs/server.pid, 0 when there is no file
    ninvocations   \* oca invocations so far

ocaVars == <<oca_pc, server_pid, servers, live, pid_file, ninvocations>>

auxVars == <<execVars, valVars, modVars, ocaVars>>

vars == <<selVars, engineVars, auxVars>>

\* install.sh sources one of the two libraries that define acfs_resolve_selection
Resolvers == {"install_helpers", "selection"}

InitSelection ==
    /\ ACFS_MANIFEST_INDEX_LOADED = FALSE
    /\ resolver = "none"
    /\ manifest = NoManifest
    /\ parsed = FALSE
    /\ input = NoInput
    /\ sel = NoOutcome
    /\ ncalls = 0
    /\ prev = <<>>

\* sourcing scripts/lib/install_helpers.sh or scripts/lib/selection.sh
SourceLibrary ==
    /\ resolver = "none"
    /\ resolver' \in Resolvers
    /\ UNCHANGED <<ACFS_MANIFEST_INDEX_LOADED, manifest, parsed, input, sel, ncalls, prev>>
    /\ UNCHANGED engineVars
    /\ UNCHANGED auxVars

\* sourcing scripts/generated/manifest_index.sh
SourceManifestIndex ==
    /\ resolver # "none"
    /\ ~ACFS_MANIFEST_INDEX_LOADED
    /\ \E man \in Manifests : manifest' = man
    /\ ACFS_MANIFEST_INDEX_LOADED' = TRUE
    /\ UNCHANGED <<resolver, parsed, input, sel, ncalls, prev>>
    /\ UNCHANGED engineVars
    /\ UNCHANGED auxVars

\* parse_args: the command line sets the selection globals
ParseArgs ==
    /\ resolver # "none"
    /\ ~parsed
    /\ \E inp \in SelectionInputs :
        \* the selection library knows no --skip-tag and no --skip-category
        /\ resolver = "selection" => inp.SKIP_TAGS = <<>> /\ inp.SKIP_CATEGORIES = <<>>
        /\ input' = inp
    /\ parsed' = TRUE
    /\ UNCHANGED <<ACFS_MANIFEST_INDEX_LOADED, resolver, manifest, sel, ncalls, prev>>
    /\ UNCHANGED engineVars
    /\ UNCHANGED auxVars

\* a call that returns 1 without clearing the outputs of the call before
ResolveSelectionKeepsOutputs ==
    /\ parsed
    /\ ncalls < MaxCalls
    /\ \E order \in KeyOrders :
        sel' = IF ~ACFS_MANIFEST_INDEX_LOADED
               THEN [sel EXCEPT !.rc = 1, !.err = Err("index-not-loaded", "", "", <<>>)]
               ELSE IF resolver = "selection"
               THEN selection_resolve(manifest, input, sel)
               ELSE LET r == acfs_resolve_selection(manifest, input, order) IN
                    IF r.rc = 0 THEN r ELSE [sel EXCEPT !.rc = 1, !.err = r.err]
    /\ prev' = IF ncalls > 0 THEN <<sel>> ELSE <<>>
    /\ ncalls' = ncalls + 1
    /\ UNCHANGED <<ACFS_MANIFEST_INDEX_LOADED, resolver, manifest, parsed, input>>
    /\ UNCHANGED engineVars
    /\ UNCHANGED auxVars

\* one call of acfs_resolve_selection
ResolveSelection ==
    /\ parsed
    /\ ncalls < MaxCalls
    /\ \E order \in KeyOrders :
        sel' = IF ~ACFS_MANIFEST_INDEX_LOADED
               THEN [sel EXCEPT !.rc = 1, !.err = Err("index-not-loaded", "", "", <<>>)]
               ELSE IF resolver = "selection"
               THEN selection_resolve(manifest, input, sel)
               ELSE acfs_resolve_selection(manifest, input, order)
    /\ prev' = IF ncalls > 0 THEN <<sel>> ELSE <<>>
    /\ ncalls' = ncalls + 1
    /\ UNCHANGED <<ACFS_MANIFEST_INDEX_LOADED, resolver, manifest, parsed, input>>
    /\ UNCHANGED engineVars
    /\ UNCHANGED auxVars

NextSelection == SourceLibrary \/ SourceManifestIndex \/ ParseArgs \/ ResolveSelection

\* lines 271-274: membership in ACFS_EFFECTIVE_RUN
should_run_module(module_id) == module_id \in sel.ACFS_EFFECTIVE_RUN

\* the command line is parsed again in the same process, with another --skip
\* list, after a first resolution and before a second one
ParseArgsAgain ==
    /\ parsed
    /\ ncalls = 1
    /\ \E s \in SeqsUpTo(ModuleSet \cup {UnknownModule}, MaxSkip) :
        /\ s # input.SKIP_MODULES
        /\ Len(s) + Len(input.SKIP_TAGS) + Len(input.SKIP_CATEGORIES) <= MaxSkip
        /\ input' = [input EXCEPT !.SKIP_MODULES = s]
    /\ UNCHANGED <<ACFS_MANIFEST_INDEX_LOADED, resolver, manifest, parsed, sel, ncalls, prev>>
    /\ UNCHANGED engineVars
    /\ UNCHANGED auxVars

NextReselection == NextSelection \/ ParseArgsAgain


(***************************************************************************)
(* The checkpointed phase driver: init_state, save_state,                  *)
(* is_phase_completed, complete_phase, run_phase, main and try_step of the *)
(* reliability roadmap.  One action is one step between two points at      *)
(* which the process can be killed.                                        *)
(***************************************************************************)
\* run_phase calls of main (the roadmap lists 10)
NumPhases == 3
\* try_step calls of one phase function
StepsPerPhase == 1

\* tools skipped in one invocation
MaxSkipped == 1
\* invocations of the installer
MaxRuns == 3

Phases == 1..NumPhases

\* install.sh runs under "set -euo pipefail": a failing simple command ends the script
errexit_off == FALSE
errexit == TRUE

NoText == <<>>

\* the state file: absent, cut short (truncated or half written), text that
\* is not JSON ("invalid"), or a state
NoFile ==
    [kind |-> "absent", completed_phases |-> <<>>, current_phase |-> 0,
     current_step |-> NoText, failed_phase |-> 0, failed_step |-> NoText,
     failed_error |-> NoText, skipped_tools |-> <<>>]

PartialFile == [NoFile EXCEPT !.kind = "partial"]

\* the variables of a new shell
FreshShell ==
    [COMPLETED_PHASES |-> <<>>, CURRENT_PHASE |-> 0, CURRENT_STEP |-> NoText,
     FAILED_PHASE |-> 0, FAILED_STEP |-> NoText, FAILED_ERROR |-> NoText,
     LAST_ERROR |-> NoText, SKIPPED_TOOLS |-> <<>>, DRY_RUN |-> FALSE]

\* line 752: printf '%s\n' "${COMPLETED_PHASES[@]}" | jq -R . | jq -s .  With
\* an empty array printf still prints one empty line, which jq reads as one
\* empty string: the list written is [""], here <<0>>
PrintCompleted(completed) == IF completed = <<>> THEN <<0>> ELSE completed

\* line 736: ($(jq -r '.completed_phases[]' ...)), word splitting drops the
\* empty lines
ReadCompleted(list) == SelectSeq(list, LAMBDA p : p # 0)

\* line 767: printf '%s\n' "${SKIPPED_TOOLS[@]:-}" | jq -R . | jq -s .  An
\* empty or unset array expands to one empty word: the list written is [""]
PrintSkipped(skipped) == IF skipped = <<>> THEN <<"">> ELSE skipped

\* the text save_state writes (0 and NoText print as null or ""); line 765
\* prints FAILED_STEP without quotes, which a step description needs
StateJson(v) ==
    [kind |-> IF v.FAILED_STEP = NoText THEN "state" ELSE "invalid",
     completed_phases |-> PrintCompleted(v.COMPLETED_PHASES),
     current_phase |-> v.CURRENT_PHASE, current_step |-> v.CURRENT_STEP,
     failed_phase |-> v.FAILED_PHASE, failed_step |-> v.FAILED_STEP,
     failed_error |-> v.FAILED_ERROR,
     skipped_tools |-> PrintSkipped(v.SKIPPED_TOOLS)]

\* jq -r '.completed_phases[]' "$state_file" 2>/dev/null || echo ""
LoadCompletedAnyway(file) == ReadCompleted(file.completed_phases)
LoadCompleted(file) ==
    IF file.kind = "state" THEN ReadCompleted(file.completed_phases) ELSE <<>>

\* jq -r '.current_phase // 0' "$state_file" 2>/dev/null || echo 0
LoadCurrentPhase(file) == IF file.kind = "state" THEN file.current_phase ELSE 0

is_phase_completed_never(phase, completed) == FALSE
is_phase_completed(phase, completed) == \E i \in 1..Len(completed) : completed[i] = phase

NoHist ==
    [resumed |-> {},      \* the completed phases the state file listed at start
     declined |-> FALSE,  \* the operator declined the resume
     invoked |-> <<>>,    \* the phase functions called, in order
     failed |-> 0,        \* the phase whose function returned failure
     unsaved |-> FALSE,   \* a save_state of this invocation failed
     written |-> {},      \* the phases a write of this invocation listed as completed
     failure_written |-> 0,  \* the failed phase a write of this invocation recorded
     persisted12 |-> FALSE,  \* a write of this invocation listed exactly 1 and 2
     after12 |-> FALSE,   \* the invocation before was killed after such a write
                          \* and before it called the function of phase 3
     prev_failed |-> 0,   \* phase n, when the invocation before halted on a failure
                          \* of phase n with exactly 1..n-1 completed
     corrupt |-> FALSE,   \* the state file was there at start and did not parse
     succeeded |-> {},    \* the phases whose function has returned success, ever
     performed |-> {},    \* those of them whose function ran outside a dry run
     skips_written |-> {}]  \* the tools a write has listed as skipped, ever

InitEngine ==
    /\ disk = NoFile
    /\ sh = FreshShell
    /\ pc = "off"
    /\ wr = "idle"
    /\ phase_num = 0
    /\ step = 0
    /\ YES_MODE = FALSE
    /\ rc = "none"
    /\ runs = 0
    /\ hist = NoHist

\* the operator starts the installer, with DRY_RUN=true or without
StartWith(dry) ==
    /\ pc = "off"
    /\ runs < MaxRuns
    /\ runs' = runs + 1
    /\ YES_MODE' \in BOOLEAN
    /\ sh' = [FreshShell EXCEPT !.DRY_RUN = dry]
    /\ pc' = "init_state"
    /\ phase_num' = 0
    /\ step' = 0
    /\ rc' = "none"
    /\ hist' = [NoHist EXCEPT !.succeeded = hist.succeeded,
                              !.performed = hist.performed,
                              !.skips_written = hist.skips_written,
                              !.resumed = Range(LoadCompleted(disk)),
                              !.after12 = /\ rc = "killed"
                                          /\ hist.persisted12
                                          /\ 3 \notin Range(hist.invoked),
                              !.prev_failed =
                                  IF /\ rc = "1" /\ hist.failed # 0 /\ ~hist.unsaved
                                     /\ sh.COMPLETED_PHASES = [i \in 1..(hist.failed - 1) |-> i]
                                  THEN hist.failed ELSE 0,
                              !.corrupt = disk.kind \in {"partial", "invalid"}]
    /\ UNCHANGED <<disk, wr>>
    /\ UNCHANGED selVars
    /\ UNCHANGED auxVars

Start == StartWith(FALSE)

StartDryRun == StartWith(TRUE)

\* the process ends with exit status status
Exit(status) ==
    /\ pc' = "off"
    /\ rc' = status
    /\ wr' = "idle"

\* init_state: load the file if there is one, else start fresh and save
init_state ==
    /\ pc = "init_state"
    /\ IF disk.kind # "absent"
       THEN /\ sh' = [sh EXCEPT !.COMPLETED_PHASES = LoadCompleted(disk),
                                !.CURRENT_PHASE = LoadCurrentPhase(disk)]
            /\ pc' = "main_resume"
       ELSE /\ sh' = [sh EXCEPT !.COMPLETED_PHASES = <<>>, !.CURRENT_PHASE = 0]
            /\ pc' = "init_save"
    /\ UNCHANGED <<disk, wr, phase_num, step, YES_MODE, rc, runs, hist>>
    /\ UNCHANGED selVars
    /\ UNCHANGED auxVars

\* main, lines 827-839: resume, or start fresh when the operator declines
main_resume ==
    /\ pc = "main_resume"
    /\ \E answer \in BOOLEAN :
        IF Len(sh.COMPLETED_PHASES) > 0 /\ ~YES_MODE /\ ~answer
        THEN /\ sh' = [sh EXCEPT !.COMPLETED_PHASES = <<>>, !.CURRENT_PHASE = 0]
             /\ hist' = [hist EXCEPT !.declined = TRUE]
             /\ pc' = "main_reset_save"
             /\ phase_num' = phase_num
        ELSE /\ pc' = "run_phase"
             /\ phase_num' = 1
             /\ UNCHANGED <<sh, hist>>
    /\ UNCHANGED <<disk, wr, step, YES_MODE, rc, runs>>
    /\ UNCHANGED selVars
    /\ UNCHANGED auxVars

\* main goes on to its next run_phase call, or returns
NextPhase(n) ==
    IF n < NumPhases
    THEN /\ pc' = "run_phase"
         /\ phase_num' = n + 1
         /\ UNCHANGED <<rc, wr>>
    ELSE /\ Exit("0")
         /\ phase_num' = n

\* run_phase, lines 797-804: skip a completed phase, else record the start
run_phase ==
    /\ pc = "run_phase"
    /\ IF is_phase_completed(phase_num, sh.COMPLETED_PHASES)
       THEN /\ NextPhase(phase_num)
            /\ UNCHANGED sh
       ELSE /\ sh' = [sh EXCEPT !.CURRENT_PHASE = phase_num,
                                !.CURRENT_STEP = <<"Starting", ToString(phase_num)>>]
            /\ pc' = "run_phase_save"
            /\ UNCHANGED <<phase_num, rc, wr>>
    /\ UNCHANGED <<disk, step, YES_MODE, runs, hist>>
    /\ UNCHANGED selVars
    /\ UNCHANGED auxVars

\* run_phase, line 808: the phase function is called
call_phase_fn ==
    /\ pc = "call_phase_fn"
    /\ pc' = "phase_fn"
    /\ step' = 1
    /\ hist' = [hist EXCEPT !.invoked = Append(@, phase_num)]
    /\ UNCHANGED <<disk, sh, wr, phase_num, YES_MODE, rc, runs>>
    /\ UNCHANGED selVars
    /\ UNCHANGED auxVars

\* a phase function between two steps: the tool is there already, or try_step
\* is called (lines 1220-1221), or every step is done and it returns 0.  In
\* a dry run a step logs what it would run and does nothing (the gates of the
\* generated module functions, install_db.sh 71-73).
phase_fn ==
    /\ pc = "phase_fn"
    /\ IF step > StepsPerPhase
       THEN /\ pc' = "complete_phase"
            /\ hist' = [hist EXCEPT !.succeeded = @ \cup {phase_num},
                                    !.performed = IF sh.DRY_RUN THEN @
                                                  ELSE @ \cup {phase_num}]
            /\ UNCHANGED <<sh, step>>
       ELSE IF sh.DRY_RUN
       THEN /\ step' = step + 1
            /\ UNCHANGED <<pc, sh, hist>>
       ELSE \E installed \in BOOLEAN :
            IF installed
            THEN /\ step' = step + 1
                 /\ UNCHANGED <<pc, sh, hist>>
            ELSE /\ sh' = [sh EXCEPT !.CURRENT_STEP =
                               <<"step", ToString(phase_num), ToString(step)>>]
                 /\ pc' = "try_step_save"
                 /\ UNCHANGED <<step, hist>>
    /\ UNCHANGED <<disk, wr, phase_num, YES_MODE, rc, runs>>
    /\ UNCHANGED selVars
    /\ UNCHANGED auxVars

\* try_step, lines 1229-1237: the command runs and succeeds or fails
try_step ==
    /\ pc = "try_step_cmd"
    /\ \E ok \in BOOLEAN :
        IF ok
        THEN /\ pc' = "phase_fn"
             /\ step' = step + 1
             /\ UNCHANGED <<sh, hist>>
        ELSE /\ sh' = [sh EXCEPT !.LAST_ERROR = <<"output", ToString(phase_num)>>]
             /\ pc' = "phase_failed"
             /\ hist' = [hist EXCEPT !.failed = phase_num]
             /\ UNCHANGED step
    /\ UNCHANGED <<disk, wr, phase_num, YES_MODE, rc, runs>>
    /\ UNCHANGED selVars
    /\ UNCHANGED auxVars

\* a complete_phase that leaves CURRENT_STEP as the last step set it
complete_phase_keeps_step ==
    /\ pc = "complete_phase"
    /\ sh' = [sh EXCEPT !.COMPLETED_PHASES = Append(@, phase_num),
                        !.CURRENT_PHASE = phase_num + 1]
    /\ pc' = "complete_phase_save"
    /\ UNCHANGED <<disk, wr, phase_num, step, YES_MODE, rc, runs, hist>>
    /\ UNCHANGED selVars
    /\ UNCHANGED auxVars

\* complete_phase, lines 784-786, before its save_state
complete_phase_nosave ==
    /\ pc = "complete_phase"
    /\ sh' = [sh EXCEPT !.COMPLETED_PHASES = Append(@, phase_num),
                        !.CURRENT_PHASE = phase_num + 1,
                        !.CURRENT_STEP = NoText]
    /\ NextPhase(phase_num)
    /\ UNCHANGED <<disk, step, YES_MODE, runs, hist>>
    /\ UNCHANGED selVars
    /\ UNCHANGED auxVars

complete_phase ==
    /\ pc = "complete_phase"
    /\ sh' = [sh EXCEPT !.COMPLETED_PHASES = Append(@, phase_num),
                        !.CURRENT_PHASE = phase_num + 1,
                        !.CURRENT_STEP = NoText]
    /\ pc' = "complete_phase_save"
    /\ UNCHANGED <<disk, wr, phase_num, step, YES_MODE, rc, runs, hist>>
    /\ UNCHANGED selVars
    /\ UNCHANGED auxVars

\* run_phase, lines 811-812: the phase function returned failure
phase_failed ==
    /\ pc = "phase_failed"
    /\ sh' = [sh EXCEPT !.FAILED_PHASE = phase_num, !.FAILED_STEP = sh.CURRENT_STEP]
    /\ pc' = "fail_save"
    /\ UNCHANGED <<disk, wr, phase_num, step, YES_MODE, rc, runs, hist>>
    /\ UNCHANGED selVars
    /\ UNCHANGED auxVars

\* run_phase, line 814: return 1 to main, which has no handler for it
run_phase_return_1 ==
    /\ pc = "run_phase_return_1"
    /\ IF errexit
       THEN Exit("1") /\ UNCHANGED phase_num
       ELSE IF phase_num < NumPhases
       THEN pc' = "run_phase" /\ phase_num' = phase_num + 1 /\ UNCHANGED <<rc, wr>>
       ELSE Exit("1") /\ UNCHANGED phase_num
    /\ UNCHANGED <<disk, sh, step, YES_MODE, runs, hist>>
    /\ UNCHANGED selVars
    /\ UNCHANGED auxVars

(***************************************************************************)
(* save_state: "cat > $state_file <<EOF" truncates the file when the shell *)
(* opens it and cat writes the text afterwards.                            *)
(***************************************************************************)
SaveSites ==
    {"init_save", "main_reset_save", "run_phase_save", "try_step_save",
     "complete_phase_save", "fail_save"}

\* inside "if $phase_fn" the shell ignores errexit
ErrexitIgnored(site) == site = "try_step_save"

\* the caller goes on after save_state has returned
AfterSave(site) ==
    CASE site = "init_save" -> pc' = "main_resume" /\ UNCHANGED <<phase_num, rc>>
      [] site = "main_reset_save" -> pc' = "run_phase" /\ phase_num' = 1 /\ UNCHANGED rc
      [] site = "run_phase_save" -> pc' = "call_phase_fn" /\ UNCHANGED <<phase_num, rc>>
      [] site = "try_step_save" -> pc' = "try_step_cmd" /\ UNCHANGED <<phase_num, rc>>
      [] site = "fail_save" -> pc' = "run_phase_return_1" /\ UNCHANGED <<phase_num, rc>>
      [] site = "complete_phase_save" ->
            IF phase_num < NumPhases
            THEN pc' = "run_phase" /\ phase_num' = phase_num + 1 /\ UNCHANGED rc
            ELSE pc' = "off" /\ rc' = "0" /\ UNCHANGED phase_num

\* save_state returned non-zero
SaveFailed(site) ==
    /\ hist' = [hist EXCEPT !.unsaved = TRUE]
    /\ IF errexit /\ ~ErrexitIgnored(site)
       THEN pc' = "off" /\ rc' = "1" /\ UNCHANGED phase_num
       ELSE AfterSave(site)

\* the shell opens the file for writing: it is empty now
save_state_open ==
    /\ pc \in SaveSites
    /\ wr = "idle"
    /\ disk' = PartialFile
    /\ wr' = "open"
    /\ UNCHANGED <<sh, pc, phase_num, step, YES_MODE, rc, runs, hist>>
    /\ UNCHANGED selVars
    /\ UNCHANGED auxVars

\* the file cannot be opened for writing
save_state_open_fails ==
    /\ pc \in SaveSites
    /\ wr = "idle"
    /\ SaveFailed(pc)
    /\ UNCHANGED <<disk, sh, wr, step, YES_MODE, runs>>
    /\ UNCHANGED selVars
    /\ UNCHANGED auxVars

\* cat writes the text
save_state_write ==
    /\ pc \in SaveSites
    /\ wr = "open"
    /\ disk' = StateJson(sh)
    /\ wr' = "idle"
    /\ AfterSave(pc)
    /\ hist' = [hist EXCEPT !.written = @ \cup Range(sh.COMPLETED_PHASES),
                            !.skips_written = @ \cup Range(sh.SKIPPED_TOOLS),
                            !.failure_written = sh.FAILED_PHASE,
                            !.persisted12 = @ \/ sh.COMPLETED_PHASES = <<1, 2>>]
    /\ UNCHANGED <<sh, step, YES_MODE, runs>>
    /\ UNCHANGED selVars
    /\ UNCHANGED auxVars

\* cat fails (disk full): the file stays cut short
save_state_write_fails ==
    /\ pc \in SaveSites
    /\ wr = "open"
    /\ wr' = "idle"
    /\ SaveFailed(pc)
    /\ UNCHANGED <<disk, sh, step, YES_MODE, runs>>
    /\ UNCHANGED selVars
    /\ UNCHANGED auxVars

\* the process is killed (SSH drops, power loss, kill -9)
Crash ==
    /\ pc # "off"
    /\ pc' = "off"
    /\ rc' = "killed"
    /\ wr' = "idle"
    /\ UNCHANGED <<disk, sh, phase_num, step, YES_MODE, runs, hist>>
    /\ UNCHANGED selVars
    /\ UNCHANGED auxVars

NextEngine ==
    \/ Start \/ Crash
    \/ init_state \/ main_resume \/ run_phase \/ call_phase_fn \/ phase_fn \/ try_step
    \/ complete_phase \/ phase_failed \/ run_phase_return_1
    \/ save_state_open \/ save_state_open_fails \/ save_state_write \/ save_state_write_fails

(***************************************************************************)
(* The verified script executor: is_critical_tool, handle_checksum_mismatch,*)
(* verify_and_run_with_recovery and report_skipped_tools.  A phase function *)
(* calls the executor, and run_phase runs the phase function as the         *)
(* condition of an if, so a non-zero status inside it does not end the      *)
(* script: the code after the call of handle_checksum_mismatch is reached.  *)
(***************************************************************************)
\* calls of verify_and_run_with_recovery in one run
MaxVerify == 2

CRITICAL_TOOLS == <<"bun", "rust", "uv", "claude">>

RECOMMENDED_TOOLS == <<"ntm", "mcp_agent_mail", "ubs", "bv", "cass", "cm", "caam", "slb">>

\* the tools the executor is called for: two critical, two recommended, and
\* one that is in neither list
ToolNames == {"bun", "claude", "ntm", "ubs", "gum"}

\* what the URL may serve
Contents == {"script", "altered"}

\* calculate_sha256: the digest of a content ("sha256" of the text)
calculate_sha256(content) == <<"sha256", content>>

\* the expected digests a caller may pass: the one of "script", a stale one
ExpectedDigests == {calculate_sha256("script"), <<"sha256", "old">>}

\* what the operator answers at the prompt: one of the digits, something
\* else, or nothing (gum choose cancelled, empty line)
Choices == {"1", "2", "3", "4", ""}

is_critical_tool_never(tool) == FALSE
is_critical_tool(tool) == \E i \in 1..Len(CRITICAL_TOOLS) : CRITICAL_TOOLS[i] = tool

\* SKIPPED_TOOLS+=("$tool"); return 0
SkipToolForget(tool, skipped) == [rc |-> 0, SKIPPED_TOOLS |-> skipped]
SkipTool(tool, skipped) == [rc |-> 0, SKIPPED_TOOLS |-> Append(skipped, tool)]

\* lines 1489-1510: case "$choice"
ChoiceCaseLenient(tool, choice, skipped) ==
    CASE choice = "1" -> SkipTool(tool, skipped)
      [] choice = "2" -> [rc |-> 1, SKIPPED_TOOLS |-> skipped]
      [] OTHER -> [rc |-> 2, SKIPPED_TOOLS |-> skipped]
ChoiceCase(tool, choice, skipped) ==
    CASE choice = "1" -> SkipTool(tool, skipped)
      [] choice = "2" -> [rc |-> 1, SKIPPED_TOOLS |-> skipped]
      [] choice = "3" -> [rc |-> 2, SKIPPED_TOOLS |-> skipped]
      [] OTHER -> [rc |-> 1, SKIPPED_TOOLS |-> skipped]

handle_checksum_mismatch(tool, yes, choice, skipped) ==
    IF is_critical_tool(tool) THEN [rc |-> 1, SKIPPED_TOOLS |-> skipped]
    ELSE IF yes THEN SkipTool(tool, skipped)
    ELSE ChoiceCase(tool, choice, skipped)

\* the record of one call: its arguments, what happened, and its status
NoCall ==
    [name |-> "", fetched |-> FALSE, content |-> "", expected |-> <<>>, yes |-> FALSE,
     choice |-> "", consulted |-> FALSE, asked |-> FALSE, executed |-> <<>>,
     before |-> <<>>, rc |-> 0]

\* lines 1522-1526: acfs_curl failed
FetchFailureIgnored(call) == [call EXCEPT !.executed = <<"">>, !.rc = 0]
FetchFailure(call) == [call EXCEPT !.rc = 1]

\* line 1546: echo "$content" | bash; the status is the script's
Execute(call, script_rc) == [call EXCEPT !.executed = <<call.content>>, !.rc = script_rc]

\* a flow whose "skip" result falls through to the execution
verify_and_run_falls_through(name, fetched, content, expected, yes, choice, script_rc, skipped) ==
    LET call == [NoCall EXCEPT !.name = name, !.fetched = fetched,
                               !.content = IF fetched THEN content ELSE "",
                               !.expected = expected, !.yes = yes, !.choice = choice,
                               !.before = skipped] IN
    IF ~fetched
    THEN [call |-> FetchFailure(call), SKIPPED_TOOLS |-> skipped]
    ELSE IF calculate_sha256(content) # expected
    THEN LET h == handle_checksum_mismatch(name, yes, choice, skipped)
             c == [call EXCEPT !.consulted = TRUE,
                               !.asked = ~is_critical_tool(name) /\ ~yes] IN
         CASE h.rc = 1 -> [call |-> [c EXCEPT !.rc = 1], SKIPPED_TOOLS |-> h.SKIPPED_TOOLS]
           [] OTHER -> [call |-> Execute(c, script_rc), SKIPPED_TOOLS |-> h.SKIPPED_TOOLS]
    ELSE [call |-> Execute(call, script_rc), SKIPPED_TOOLS |-> skipped]

\* verify_and_run_with_recovery on SKIPPED_TOOLS = skipped: the call record
\* and the new SKIPPED_TOOLS
verify_and_run_with_recovery(name, fetched, content, expected, yes, choice, script_rc, skipped) ==
    LET call == [NoCall EXCEPT !.name = name, !.fetched = fetched,
                               !.content = IF fetched THEN content ELSE "",
                               !.expected = expected, !.yes = yes, !.choice = choice,
                               !.before = skipped] IN
    IF ~fetched
    THEN [call |-> FetchFailure(call), SKIPPED_TOOLS |-> skipped]
    ELSE IF calculate_sha256(content) # expected
    THEN LET h == handle_checksum_mismatch(name, yes, choice, skipped)
             c == [call EXCEPT !.consulted = TRUE,
                               !.asked = ~is_critical_tool(name) /\ ~yes] IN
         CASE h.rc = 0 -> [call |-> [c EXCEPT !.rc = 0], SKIPPED_TOOLS |-> h.SKIPPED_TOOLS]
           [] h.rc = 1 -> [call |-> [c EXCEPT !.rc = 1], SKIPPED_TOOLS |-> h.SKIPPED_TOOLS]
           [] h.rc = 2 -> [call |-> Execute(c, script_rc), SKIPPED_TOOLS |-> h.SKIPPED_TOOLS]
    ELSE [call |-> Execute(call, script_rc), SKIPPED_TOOLS |-> skipped]

\* report_skipped_tools: the tools it lists (none when the list is empty)
report_skipped_tools(skipped) == skipped

NotReported == <<"none">>

InitExecutor ==
    /\ vr = NoCall
    /\ SKIPPED_TOOLS = <<>>
    /\ nverify = 0
    /\ report = NotReported

\* --yes on the command line
ParseYes ==
    /\ pc = "off"
    /\ nverify = 0
    /\ ~YES_MODE
    /\ YES_MODE' = TRUE
    /\ UNCHANGED <<disk, sh, pc, wr, phase_num, step, rc, runs, hist>>
    /\ UNCHANGED <<selVars, auxVars>>

\* one call of the executor by a phase function
VerifyAndRun ==
    /\ nverify < MaxVerify
    /\ report = NotReported
    /\ vr.rc = 0
    /\ \E name \in ToolNames, fetched \in BOOLEAN, content \in Contents,
          expected \in ExpectedDigests, choice \in Choices, script_rc \in {0, 1} :
         LET r == verify_and_run_with_recovery(name, fetched, content, expected, YES_MODE,
                                               choice, script_rc, SKIPPED_TOOLS) IN
         /\ vr' = r.call
         /\ SKIPPED_TOOLS' = r.SKIPPED_TOOLS
    /\ nverify' = nverify + 1
    /\ UNCHANGED report
    /\ UNCHANGED <<selVars, engineVars, valVars, modVars, ocaVars>>

\* the run went on to its end: the post-install report
ReportSkippedTools ==
    /\ report = NotReported
    /\ nverify > 0
    /\ vr.rc = 0
    /\ report' = report_skipped_tools(SKIPPED_TOOLS)
    /\ UNCHANGED <<vr, SKIPPED_TOOLS, nverify>>
    /\ UNCHANGED <<selVars, engineVars, valVars, modVars, ocaVars>>

NextExecutor == ParseYes \/ VerifyAndRun \/ ReportSkippedTools

\* a step of the phase function is a verified install whose content does
\* not match: handle_checksum_mismatch records the tool as skipped and the
\* step returns 0 (lines 1536-1538)
verified_install_skipped ==
    /\ pc = "phase_fn"
    /\ step <= StepsPerPhase
    /\ Len(sh.SKIPPED_TOOLS) < MaxSkipped
    /\ \E tool \in ToolNames, choice \in Choices :
        LET h == handle_checksum_mismatch(tool, YES_MODE, choice, sh.SKIPPED_TOOLS) IN
        /\ h.rc = 0
        /\ sh' = [sh EXCEPT !.SKIPPED_TOOLS = h.SKIPPED_TOOLS]
    /\ step' = step + 1
    /\ UNCHANGED <<disk, pc, wr, phase_num, YES_MODE, rc, runs, hist>>
    /\ UNCHANGED selVars
    /\ UNCHANGED auxVars

\* the installer with its dry runs and its verified installs
NextInstall == NextEngine \/ StartDryRun \/ verified_install_skipped

(***************************************************************************)
(* Manifest validation as the parser runs it: parse the YAML, then          *)
(* validateManifest.  The data are schema-valid: ids may repeat, a          *)
(* dependency may name no module, a module may depend on itself.            *)
(***************************************************************************)
\* modules of a manifest handed to validateManifest
MaxModules == 3

ManifestData ==
    UNION {[1..k -> [id : ModuleSet, phase : {1, 2}, dependencies : DepLists]] :
              k \in 1..MaxModules}

NotValidated == <<>>

InitValidation ==
    /\ data = <<>>
    /\ validation = NotValidated

\* parseManifestFile: the YAML text becomes the manifest data
ParseManifest ==
    /\ data = <<>>
    /\ data' \in ManifestData
    /\ UNCHANGED validation
    /\ UNCHANGED <<selVars, engineVars, execVars, modVars, ocaVars>>

ValidateManifest ==
    /\ data # <<>>
    /\ validation = NotValidated
    /\ validation' = validateManifest(data)
    /\ UNCHANGED data
    /\ UNCHANGED <<selVars, engineVars, execVars, modVars, ocaVars>>

NextValidation == ParseManifest \/ ValidateManifest

(***************************************************************************)
(* Generated module functions (scripts/generated/install_*.sh and the      *)
(* pattern of the plan document) and the shell runners of                  *)
(* install_helpers.sh they pass their actions to.                          *)
(***************************************************************************)
MaxModuleCalls == 2

Action(kind, cmd, runner) == [kind |-> kind, cmd |-> cmd, runner |-> runner]

\* install_db.sh lines 66-160: an optional module, every action as root
install_db_postgres18 ==
    [module_id |-> "db.postgres18", optional |-> TRUE, pattern |-> "generated",
     steps |-> << Action("install", "mkdir -p /etc/apt/keyrings", "run_as_root_shell"),
                  Action("install", "apt-get update", "run_as_root_shell"),
                  Action("install", "apt-get install -y postgresql-18", "run_as_root_shell"),
                  Action("verify", "psql --version", "run_as_root_shell"),
                  Action("verify (optional)", "systemctl status postgresql --no-pager",
                         "run_as_root_shell") >>]

\* part_005 lines 66-124: a module that is not optional
install_network_tailscale ==
    [module_id |-> "network.tailscale", optional |-> FALSE, pattern |-> "generated",
     steps |-> << Action("install", "# Add Tailscale apt repository", "run_as_root_shell"),
                  Action("verify", "tailscale version", "run_as_root_shell"),
                  Action("verify", "systemctl is-enabled tailscaled", "run_as_root_shell") >>]

\* plan document lines 369-397: installed check, dry-run block, verified
\* installer, verification
install_lang_bun ==
    [module_id |-> "lang.bun", optional |-> FALSE, pattern |-> "documented",
     steps |-> << Action("installed_check", "command -v bun", "run_as_target_shell"),
                  Action("install", "acfs_run_verified_upstream_script_as_target bun bash",
                         "acfs_run_verified_upstream_script_as_target"),
                  Action("verify", "bun --version", "run_as_target_shell") >>]

ModuleFunctions == {"install_db_postgres18", "install_network_tailscale", "install_lang_bun"}

ModuleFunction(name) ==
    CASE name = "install_db_postgres18" -> install_db_postgres18
      [] name = "install_network_tailscale" -> install_network_tailscale
      [] name = "install_lang_bun" -> install_lang_bun

\* what install_db.sh lines 26-33 and the caller's shell may or may not define
Envs ==
    [EUID : {0, 1000}, SUDO : {"", "sudo"}, sudo : BOOLEAN, run_as_target : BOOLEAN,
     contract : BOOLEAN, recorder : {"record_skipped_tool", "state_tool_skip", "none"}]

NoEnv == <<>>

Results == {"ok", "fail"}

\* the body ran under identity and ended with the status of its last command
Ran(identity, res) ==
    [rc |-> IF res = "ok" THEN 0 ELSE 1, executed |-> TRUE, identity |-> identity,
     error |-> ""]

\* the runner returned without starting a shell for the body
NotRun(status, error) ==
    [rc |-> status, executed |-> FALSE, identity |-> "none", error |-> error]

\* a runner that falls back to the caller's own identity
run_as_root_shell_fallback(e, res) ==
    IF e.EUID = 0 THEN Ran("root", res)
    ELSE IF e.SUDO # "" \/ e.sudo
    THEN IF e.sudo THEN Ran("root", res) ELSE NotRun(127, "command not found")
    ELSE Ran("current_user", res)

\* install_helpers.sh lines 311-339
run_as_root_shell(e, res) ==
    IF e.EUID = 0 THEN Ran("root", res)
    ELSE IF e.SUDO # ""
    THEN IF e.sudo THEN Ran("root", res) ELSE NotRun(127, "command not found")
    ELSE IF e.sudo THEN Ran("root", res)
    ELSE NotRun(1, "run_as_root_shell requires root or sudo")

\* install_helpers.sh lines 293-308
run_as_target_shell(e, res) ==
    IF ~e.run_as_target THEN NotRun(1, "run_as_target_shell requires run_as_target")
    ELSE Ran("target_user", res)

\* the verified installer of the plan document (line 388), as the target user
acfs_run_verified_upstream_script_as_target(e, res) == Ran("target_user", res)

Runner(name, e, res) ==
    CASE name = "run_as_root_shell" -> run_as_root_shell(e, res)
      [] name = "run_as_target_shell" -> run_as_target_shell(e, res)
      [] name = "acfs_run_verified_upstream_script_as_target" ->
            acfs_run_verified_upstream_script_as_target(e, res)

\* one runner call as the call history keeps it
Passed(a, r) ==
    [runner |-> a.runner, kind |-> a.kind, cmd |-> a.cmd, rc |-> r.rc,
     executed |-> r.executed, identity |-> r.identity, error |-> r.error]

Log(level, text, about) == [level |-> level, text |-> text, about |-> about]

\* install_db.sh lines 90-94: record_skipped_tool, else state_tool_skip, else nothing
RecordSkipped(e, module_id, skipped) ==
    IF e.recorder = "none" THEN skipped ELSE skipped \cup {module_id}

InitModule ==
    /\ env = NoEnv
    /\ DRY_RUN = FALSE
    /\ fn = "none"
    /\ fpc = "idle"
    /\ fstep = 0
    /\ flog = <<>>
    /\ fctx = <<>>
    /\ frc = -1
    /\ SKIPPED_MODULES = {}
    /\ nfn = 0

\* install_db.sh lines 8-34: the script is sourced in a shell
SourceGenerated ==
    /\ env = NoEnv
    /\ env' \in Envs
    /\ DRY_RUN' \in BOOLEAN
    /\ UNCHANGED <<fn, fpc, fstep, flog, fctx, frc, SKIPPED_MODULES, nfn>>
    /\ UNCHANGED <<selVars, engineVars, execVars, valVars, ocaVars>>

\* install_db.sh line 165: a module function is called
CallModuleFunction ==
    /\ env # NoEnv
    /\ fpc \in {"idle", "returned"}
    /\ nfn < MaxModuleCalls
    /\ fn' \in ModuleFunctions
    /\ fpc' = "entry"
    /\ fstep' = 1
    /\ flog' = <<>>
    /\ fctx' = <<>>
    /\ frc' = -1
    /\ nfn' = nfn + 1
    /\ UNCHANGED <<env, DRY_RUN, SKIPPED_MODULES>>
    /\ UNCHANGED <<selVars, engineVars, execVars, valVars, ocaVars>>

\* install_db.sh lines 68-69: acfs_require_contract ... || return 1, log_step
RequireContract ==
    /\ fpc = "entry"
    /\ ModuleFunction(fn).pattern = "generated"
    /\ IF env.contract
       THEN /\ flog' = Append(flog, Log("step", "Installing", ModuleFunction(fn).module_id))
            /\ fpc' = "step"
            /\ frc' = frc
       ELSE /\ flog' = flog
            /\ fpc' = "returned"
            /\ frc' = 1
    /\ UNCHANGED <<env, DRY_RUN, fn, fstep, fctx, SKIPPED_MODULES, nfn>>
    /\ UNCHANGED <<selVars, engineVars, execVars, valVars, ocaVars>>

\* a failure handling that knows no optional module
ActionFailedFatal(m, a) ==
    IF a.kind = "verify (optional)"
    THEN /\ flog' = Append(flog, Log("warn", "Optional verify failed", a.cmd))
         /\ fstep' = fstep + 1
         /\ UNCHANGED <<fpc, frc, SKIPPED_MODULES>>
    ELSE /\ flog' = Append(flog, Log("error", a.kind \o " failed", a.cmd))
         /\ fpc' = "returned"
         /\ frc' = 1
         /\ UNCHANGED <<fstep, SKIPPED_MODULES>>

\* a failed action of a generated function (install_db.sh lines 88-96,
\* 154-156; part_005 lines 93-96)
ActionFailed(m, a) ==
    IF a.kind = "verify (optional)"
    THEN /\ flog' = Append(flog, Log("warn", "Optional verify failed", a.cmd))
         /\ fstep' = fstep + 1
         /\ UNCHANGED <<fpc, frc, SKIPPED_MODULES>>
    ELSE IF m.optional
    THEN /\ flog' = Append(flog, Log("warn", a.kind \o " failed", a.cmd))
         /\ SKIPPED_MODULES' = RecordSkipped(env, m.module_id, SKIPPED_MODULES)
         /\ fpc' = "returned"
         /\ frc' = 0
         /\ UNCHANGED fstep
    ELSE /\ flog' = Append(flog, Log("error", a.kind \o " failed", a.cmd))
         /\ fpc' = "returned"
         /\ frc' = 1
         /\ UNCHANGED <<fstep, SKIPPED_MODULES>>

\* a generated function that does not test DRY_RUN before an action
GeneratedStepNoDryRun ==
    /\ fpc = "step"
    /\ ModuleFunction(fn).pattern = "generated"
    /\ fstep <= Len(ModuleFunction(fn).steps)
    /\ LET m == ModuleFunction(fn)
           a == m.steps[fstep] IN
       \E res \in Results :
            LET r == Runner(a.runner, env, res) IN
            /\ fctx' = Append(fctx, Passed(a, r))
            /\ IF r.rc = 0
               THEN /\ fstep' = fstep + 1
                    /\ UNCHANGED <<fpc, flog, frc, SKIPPED_MODULES>>
               ELSE ActionFailed(m, a)
    /\ UNCHANGED <<env, DRY_RUN, fn, nfn>>
    /\ UNCHANGED <<selVars, engineVars, execVars, valVars, ocaVars>>

\* one action of a generated function: the DRY_RUN test, the runner, the
\* handling of its failure (install_db.sh lines 71-97 and the blocks after it)
GeneratedStep ==
    /\ fpc = "step"
    /\ ModuleFunction(fn).pattern = "generated"
    /\ fstep <= Len(ModuleFunction(fn).steps)
    /\ LET m == ModuleFunction(fn)
           a == m.steps[fstep] IN
       IF DRY_RUN
       THEN /\ flog' = Append(flog, Log("info", "dry-run: " \o a.kind, a.cmd))
            /\ fstep' = fstep + 1
            /\ UNCHANGED <<fpc, fctx, frc, SKIPPED_MODULES>>
       ELSE \E res \in Results :
            LET r == Runner(a.runner, env, res) IN
            /\ fctx' = Append(fctx, Passed(a, r))
            /\ IF r.rc = 0
               THEN /\ fstep' = fstep + 1
                    /\ UNCHANGED <<fpc, flog, frc, SKIPPED_MODULES>>
               ELSE ActionFailed(m, a)
    /\ UNCHANGED <<env, DRY_RUN, fn, nfn>>
    /\ UNCHANGED <<selVars, engineVars, execVars, valVars, ocaVars>>

\* an installed check that is left out in dry-run mode
InstalledCheckNotInDryRun ==
    /\ fpc = "entry"
    /\ ModuleFunction(fn).pattern = "documented"
    /\ LET m == ModuleFunction(fn)
           a == m.steps[1] IN
       IF DRY_RUN
       THEN /\ fpc' = "dry_run"
            /\ UNCHANGED <<fctx, flog, frc>>
       ELSE \E res \in Results :
            LET r == Runner(a.runner, env, res) IN
            /\ fctx' = Append(fctx, Passed(a, r))
            /\ IF r.rc = 0
               THEN /\ flog' = Append(flog, Log("detail", "already installed, skipping",
                                               m.module_id))
                    /\ fpc' = "returned"
                    /\ frc' = 0
               ELSE /\ fpc' = "dry_run"
                    /\ UNCHANGED <<flog, frc>>
    /\ UNCHANGED <<env, DRY_RUN, fn, fstep, SKIPPED_MODULES, nfn>>
    /\ UNCHANGED <<selVars, engineVars, execVars, valVars, ocaVars>>

\* plan document lines 372-376: the installed check, in dry-run mode too
InstalledCheck ==
    /\ fpc = "entry"
    /\ ModuleFunction(fn).pattern = "documented"
    /\ LET m == ModuleFunction(fn)
           a == m.steps[1] IN
       \E res \in Results :
            LET r == Runner(a.runner, env, res) IN
            /\ fctx' = Append(fctx, Passed(a, r))
            /\ IF r.rc = 0
               THEN /\ flog' = Append(flog, Log("detail", "already installed, skipping",
                                               m.module_id))
                    /\ fpc' = "returned"
                    /\ frc' = 0
               ELSE /\ fpc' = "dry_run"
                    /\ UNCHANGED <<flog, frc>>
    /\ UNCHANGED <<env, DRY_RUN, fn, fstep, SKIPPED_MODULES, nfn>>
    /\ UNCHANGED <<selVars, engineVars, execVars, valVars, ocaVars>>

\* plan document lines 378-385: the DRY_RUN block, then "Installing"
DryRunBlock ==
    /\ fpc = "dry_run"
    /\ LET m == ModuleFunction(fn) IN
       IF DRY_RUN
       THEN /\ flog' = flog \o << Log("detail", "dry-run: would install", m.module_id),
                                  Log("detail", "dry-run: would run", m.steps[2].cmd) >>
            /\ fpc' = "returned"
            /\ frc' = 0
            /\ UNCHANGED fstep
       ELSE /\ flog' = Append(flog, Log("detail", "Installing", m.module_id))
            /\ fpc' = "step"
            /\ fstep' = 2
            /\ UNCHANGED frc
    /\ UNCHANGED <<env, DRY_RUN, fn, fctx, SKIPPED_MODULES, nfn>>
    /\ UNCHANGED <<selVars, engineVars, execVars, valVars, ocaVars>>

\* plan document lines 387-394: the installer, called plainly (its status is
\* not tested, and errexit is off inside "if $phase_fn"), and the verification
DocumentedStep ==
    /\ fpc = "step"
    /\ ModuleFunction(fn).pattern = "documented"
    /\ fstep <= Len(ModuleFunction(fn).steps)
    /\ LET m == ModuleFunction(fn)
           a == m.steps[fstep] IN
       \E res \in Results :
            LET r == Runner(a.runner, env, res) IN
            /\ fctx' = Append(fctx, Passed(a, r))
            /\ IF a.kind = "verify" /\ r.rc # 0
               THEN /\ flog' = Append(flog, Log("error", "verification failed", m.module_id))
                    /\ fpc' = "returned"
                    /\ frc' = 1
                    /\ UNCHANGED fstep
               ELSE /\ fstep' = fstep + 1
                    /\ UNCHANGED <<fpc, flog, frc>>
    /\ UNCHANGED <<env, DRY_RUN, fn, SKIPPED_MODULES, nfn>>
    /\ UNCHANGED <<selVars, engineVars, execVars, valVars, ocaVars>>

\* install_db.sh line 159, plan document line 396: log_success is the last command
FinishModule ==
    /\ fpc = "step"
    /\ fstep > Len(ModuleFunction(fn).steps)
    /\ flog' = Append(flog, Log("success", "installed", ModuleFunction(fn).module_id))
    /\ fpc' = "returned"
    /\ frc' = 0
    /\ UNCHANGED <<env, DRY_RUN, fn, fstep, fctx, SKIPPED_MODULES, nfn>>
    /\ UNCHANGED <<selVars, engineVars, execVars, valVars, ocaVars>>

NextModule ==
    \/ SourceGenerated
    \/ CallModuleFunction
    \/ RequireContract
    \/ GeneratedStep
    \/ InstalledCheck
    \/ DryRunBlock
    \/ DocumentedStep
    \/ FinishModule

(***************************************************************************)
(* oca (OpenCode Attach): shells in one project directory call oca; each   *)
(* call checks the pid file, starts a server when it finds none running,   *)
(* writes the pid file and attaches.  Nothing is locked between the steps. *)
(***************************************************************************)
\* the interactive shells open in the project directory
Shells == {"shell1", "shell2"}

\* oca invocations in all
MaxInvocations == 3

\* opencode_is_server_running: the pid file is there and kill -0 reaches the
\* process it names
opencode_is_server_running(file, alive) == file # 0 /\ file \in alive

InitOca ==
    /\ oca_pc = [p \in Shells |-> "idle"]
    /\ server_pid = [p \in Shells |-> 0]
    /\ servers = <<>>
    /\ live = {}
    /\ pid_file = 0
    /\ ninvocations = 0

\* oca, lines 11-18: the locals are computed, the directory is made
oca(p) ==
    /\ oca_pc[p] = "idle"
    /\ ninvocations < MaxInvocations
    /\ ninvocations' = ninvocations + 1
    /\ oca_pc' = [oca_pc EXCEPT ![p] = "check"]
    /\ server_pid' = [server_pid EXCEPT ![p] = 0]
    /\ UNCHANGED <<servers, live, pid_file>>
    /\ UNCHANGED <<selVars, engineVars, execVars, valVars, modVars>>

\* line 21: if ! opencode_is_server_running "$project_dir"
oca_check(p) ==
    /\ oca_pc[p] = "check"
    /\ oca_pc' = [oca_pc EXCEPT ![p] =
           IF opencode_is_server_running(pid_file, live) THEN "attach" ELSE "start"]
    /\ UNCHANGED <<server_pid, servers, live, pid_file, ninvocations>>
    /\ UNCHANGED <<selVars, engineVars, execVars, valVars, modVars>>

\* lines 24-25: opencode server start --port "$port" &, server_pid=$!
oca_start_server(p) ==
    /\ oca_pc[p] = "start"
    /\ LET pid == Len(servers) + 1 IN
        /\ servers' = Append(servers, [pid |-> pid, by |-> p, others |-> live])
        /\ live' = live \cup {pid}
        /\ server_pid' = [server_pid EXCEPT ![p] = pid]
    /\ oca_pc' = [oca_pc EXCEPT ![p] = "write_pid"]
    /\ UNCHANGED <<pid_file, ninvocations>>
    /\ UNCHANGED <<selVars, engineVars, execVars, valVars, modVars>>

\* lines 26-27: echo "$server_pid" > "$pid_file", sleep 3
oca_write_pid(p) ==
    /\ oca_pc[p] = "write_pid"
    /\ pid_file' = server_pid[p]
    /\ oca_pc' = [oca_pc EXCEPT ![p] = "attach"]
    /\ UNCHANGED <<server_pid, servers, live, ninvocations>>
    /\ UNCHANGED <<selVars, engineVars, execVars, valVars, modVars>>

\* lines 31-41: the client runs and ends
oca_attach(p) ==
    /\ oca_pc[p] = "attach"
    /\ oca_pc' = [oca_pc EXCEPT ![p] = "idle"]
    /\ UNCHANGED <<server_pid, servers, live, pid_file, ninvocations>>
    /\ UNCHANGED <<selVars, engineVars, execVars, valVars, modVars>>

\* a server ends: it could not bind its port, it crashed, it was stopped
ServerExits ==
    /\ \E s \in live : live' = live \ {s}
    /\ UNCHANGED <<oca_pc, server_pid, servers, pid_file, ninvocations>>
    /\ UNCHANGED <<selVars, engineVars, execVars, valVars, modVars>>

NextOca ==
    \/ \E p \in Shells : oca(p)
    \/ \E p \in Shells : oca_check(p)
    \/ \E p \in Shells : oca_start_server(p)
    \/ \E p \in Shells : oca_write_pid(p)
    \/ \E p \in Shells : oca_attach(p)
    \/ ServerExits

Init == InitSelection /\ InitEngine /\ InitExecutor /\ InitValidation /\ InitModule /\ InitOca

SpecSelection == Init /\ [][NextSelection]_vars
SpecReselection == Init /\ [][NextReselection]_vars

SpecEngine == Init /\ [][NextEngine]_vars

SpecInstall == Init /\ [][NextInstall]_vars

SpecExecutor == Init /\ [][NextExecutor]_vars

SpecValidation == Init /\ [][NextValidation]_vars

SpecModule == Init /\ [][NextModule]_vars

SpecOca == Init /\ [][NextOca]_vars

(***************************************************************************)
(* Vocabulary of the selection claims.                                     *)
(***************************************************************************)
DirectDeps(man, S) == UNION {Range(DepsOf(man, m)) : m \in S}

\* S and everything S depends on, directly or transitively
RECURSIVE DependencyClosure(_, _)
DependencyClosure(man, S) ==
    LET T == S \cup DirectDeps(man, S) IN
    IF T = S THEN S ELSE DependencyClosure(man, T)

TransitiveDeps(man, m) == DependencyClosure(man, DirectDeps(man, {m}))

\* the last call ran the resolver of install_helpers.sh on a loaded index
HelpersCalled ==
    resolver = "install_helpers" /\ ncalls > 0 /\ sel.err.kind # "index-not-loaded"

AnyResolverCalled == ncalls > 0 /\ sel.err.kind # "index-not-loaded"

\* every id and phase on the command line exists: the start set and the skip set are formed
InputKnown ==
    /\ Range(input.ONLY_MODULES) \subseteq ModuleSet
    /\ Range(input.SKIP_MODULES) \subseteq ModuleSet
    /\ Len(input.ONLY_MODULES) = 0 => Range(input.ONLY_PHASES) \subseteq phase_exists(manifest)

\* the start-set modules that are not skipped
KeptStart == StartSet(manifest, input).desired \ SkipSet(input)

\* no module depends on a module of a later phase
PhaseRule(man) ==
    \A m \in ModuleSet : \A d \in Range(DepsOf(man, m)) : man.phase[d] <= man.phase[m]

PlanIndex(m) == CHOOSE i \in 1..Len(sel.ACFS_EFFECTIVE_PLAN) : sel.ACFS_EFFECTIVE_PLAN[i] = m

SameOutcome(a, b) ==
    /\ a.rc = b.rc
    /\ a.rc = 0 =>
        /\ a.ACFS_EFFECTIVE_PLAN = b.ACFS_EFFECTIVE_PLAN
        /\ a.ACFS_PLAN_REASON = b.ACFS_PLAN_REASON
        /\ a.ACFS_PLAN_EXCLUDE_REASON = b.ACFS_PLAN_EXCLUDE_REASON

(***************************************************************************)
(* Claims.                                                                 *)
(***************************************************************************)
\* C1: two calls of acfs_resolve_selection on the same manifest index and the
\* same selection input have the same outcome (status, ordered plan, inclusion
\* and exclusion reasons), whatever order bash enumerates the start set in.
C1_TwoCallsSameOutcome ==
    (HelpersCalled /\ ncalls >= 2 /\ prev # <<>>)
        => (prev[1].err.kind # "index-not-loaded" => SameOutcome(prev[1], sel))

\* C2: for a manifest that validateManifest accepts (and that keeps every
\* dependency in the phase of its dependent or an earlier one) and a successful
\* resolution with dependency closure on, every dependency of a plan module is
\* in the plan at a strictly smaller index.
C2_DependenciesFirst ==
    (HelpersCalled /\ sel.rc = 0 /\ ~input.NO_DEPS
        /\ validateManifest(ManifestModules(manifest)).valid
        /\ PhaseRule(manifest))
        => \A m \in Range(sel.ACFS_EFFECTIVE_PLAN) :
               \A d \in Range(DepsOf(manifest, m)) :
                   /\ d \in Range(sel.ACFS_EFFECTIVE_PLAN)
                   /\ PlanIndex(d) < PlanIndex(m)

\* C3: a successful resolution with closure on yields exactly the kept start
\* set and its transitive dependencies, once each, in manifest order.
C3_PlanIsClosure ==
    (HelpersCalled /\ sel.rc = 0 /\ ~input.NO_DEPS)
        => sel.ACFS_EFFECTIVE_PLAN =
               Restrict(ACFS_MODULES_IN_ORDER, DependencyClosure(manifest, KeptStart))

\* Scenario A: --only agents.claude, agents.claude depends on lang.bun
C3_Witness ==
    /\ HelpersCalled /\ sel.rc = 0 /\ ~input.NO_DEPS
    /\ input.ONLY_MODULES = <<"agents.claude">>
    /\ manifest.deps["agents.claude"] = <<"lang.bun">>
    /\ manifest.deps["lang.bun"] = <<>>
    /\ sel.ACFS_EFFECTIVE_PLAN = <<"lang.bun", "agents.claude">>
    /\ sel.ACFS_PLAN_EXCLUDE_REASON["base.system"] = <<"not selected">>

\* C4: when a kept start-set module depends, directly or transitively, on a
\* skipped module, the call fails, names a dependent module and its skipped
\* dependency, and leaves no plan, with --no-deps too.
C4_SkippedDependencyRejected ==
    (HelpersCalled /\ InputKnown
        /\ \E m \in KeptStart : TransitiveDeps(manifest, m) \cap SkipSet(input) # {})
        => /\ sel.rc = 1
           /\ sel.ACFS_EFFECTIVE_PLAN = <<>>
           /\ sel.ACFS_EFFECTIVE_RUN = {}
           /\ sel.err.kind = "depends-on-skipped"
           /\ sel.err.module \in KeptStart
           /\ sel.err.dep \in SkipSet(input)
           /\ sel.err.dep \in TransitiveDeps(manifest, sel.err.module)

\* Scenario B with --no-deps: the chain agents.claude -> lang.bun is reported
C4_Witness ==
    /\ HelpersCalled /\ input.NO_DEPS
    /\ input.ONLY_MODULES = <<"agents.claude">>
    /\ input.SKIP_MODULES = <<"lang.bun">>
    /\ sel.rc = 1
    /\ sel.err.chain = <<"agents.claude", "lang.bun">>

\* C5: a successful resolution never lists a skipped module, whether it came
\* from the start set or from dependency closure.
C5_NoSkippedModuleInPlan ==
    (AnyResolverCalled /\ sel.rc = 0)
        => Range(sel.ACFS_EFFECTIVE_PLAN) \cap SkipSet(input) = {}

\* a skipped start-set module is left out of a plan that is not empty
C5_Witness ==
    /\ AnyResolverCalled /\ sel.rc = 0
    /\ StartSet(manifest, input).desired \cap SkipSet(input) # {}
    /\ sel.ACFS_EFFECTIVE_PLAN # <<>>
    /\ DirectDeps(manifest, Range(sel.ACFS_EFFECTIVE_PLAN)) # {}


(***************************************************************************)
(* Vocabulary of the engine claims.                                        *)
(***************************************************************************)
Running == pc # "off"

\* the process ended by itself (it was not killed)
Returned == pc = "off" /\ rc \in {"0", "1"}

\* the file lists phase n as completed
ListsCompleted(file, n) == \E i \in 1..Len(file.completed_phases) : file.completed_phases[i] = n

C7_ResumeStartsAtPhase3 ==
    (hist.after12 /\ ~hist.declined /\ Len(hist.invoked) > 0) => hist.invoked[1] = 3

\* C8: once the function of phase n has failed, the file does not list n as
\* completed, no phase function is called after n's in that invocation, and
\* a process that ends by itself ends with a failure status.
C8_FailedPhaseHalts ==
    hist.failed # 0 =>
        /\ ~ListsCompleted(disk, hist.failed)
        /\ hist.invoked[Len(hist.invoked)] = hist.failed
        /\ sh.COMPLETED_PHASES = SelectSeq(sh.COMPLETED_PHASES, LAMBDA q : q # hist.failed)
        /\ Returned => rc = "1"

\* phase 2 failed after phase 1 had completed, and the process has returned
C8_Witness ==
    /\ hist.failed = 2
    /\ hist.invoked = <<1, 2>>
    /\ Returned
    /\ ~hist.unsaved

\* C9: while main is at or past run_phase p, every phase before p whose
\* function was called in this invocation has had its completion written to
\* the file; and run_phase reaches "return 1" only after a write that
\* recorded the failed phase.
C9_PersistedBeforeProceeding ==
    /\ Running =>
         \A q \in Range(hist.invoked) : q < phase_num => q \in hist.written
    /\ pc = "run_phase_return_1" =>
         /\ hist.failure_written = phase_num
         /\ hist.failure_written = hist.failed

\* phase 1 was completed and phase 2 has failed in the same invocation:
\* run_phase is about to return 1
C9_Witness ==
    /\ pc = "run_phase_return_1"
    /\ phase_num = 2
    /\ hist.invoked = <<1, 2>>
    /\ 1 \in hist.written
    /\ hist.failure_written = 2

\* C10: whenever there is a state file, it is a complete state, and every
\* phase it lists as completed is one whose function has returned success.
C10_DiskStateComplete ==
    disk.kind # "absent" =>
        /\ disk.kind = "state"
        /\ Range(ReadCompleted(disk.completed_phases)) \subseteq hist.succeeded

(***************************************************************************)
(* Vocabulary of the executor claims.                                      *)
(***************************************************************************)
\* the last call fetched a content whose digest is not the expected one
Mismatch == nverify > 0 /\ vr.fetched /\ calculate_sha256(vr.content) # vr.expected

\* the last call ran some script
Executed == vr.executed # <<>>

\* the tool is in the CRITICAL_TOOLS list
Critical(tool) == tool \in Range(CRITICAL_TOOLS)

\* C11: on a checksum mismatch for a critical tool the call returns failure
\* and runs no script, with --yes and without it, whatever the operator
\* would answer; the tool is not recorded as skipped either.
C11_CriticalMismatchAborts ==
    (Mismatch /\ Critical(vr.name)) =>
        /\ vr.rc = 1
        /\ ~Executed
        /\ SKIPPED_TOOLS = vr.before

\* interactive mode, an operator who would answer "install anyway"
C11_Witness ==
    /\ Mismatch /\ vr.name = "claude"
    /\ ~vr.yes /\ vr.choice = "3"
    /\ vr.rc = 1 /\ ~Executed

\* C12: on a checksum mismatch for a tool that is not critical, with --yes,
\* no script runs, the tool is appended to SKIPPED_TOOLS, the call returns 0,
\* and the report at the end of the run lists the tool.
C12_RecommendedMismatchSkipped ==
    (Mismatch /\ ~Critical(vr.name) /\ vr.yes) =>
        /\ ~Executed
        /\ SKIPPED_TOOLS = Append(vr.before, vr.name)
        /\ vr.rc = 0
        /\ ~vr.asked
        /\ report # NotReported => vr.name \in Range(report)

\* Scenario D: ntm skipped in automated mode and listed by the report
C12_Witness ==
    /\ Mismatch /\ vr.name = "ntm" /\ vr.yes
    /\ vr.rc = 0 /\ ~Executed
    /\ report = <<"ntm">>

\* C17: on a checksum mismatch for a tool that is not critical, without
\* --yes: "1" records the tool as skipped and runs nothing, "2" returns
\* failure and runs nothing, "3" runs the fetched script, any other answer
\* returns failure and runs nothing.
C17_InteractiveChoices ==
    (Mismatch /\ ~Critical(vr.name) /\ ~vr.yes) =>
        /\ vr.asked
        /\ vr.choice = "1" =>
             ~Executed /\ vr.rc = 0 /\ SKIPPED_TOOLS = Append(vr.before, vr.name)
        /\ vr.choice = "2" => ~Executed /\ vr.rc = 1 /\ SKIPPED_TOOLS = vr.before
        /\ vr.choice = "3" => vr.executed = <<vr.content>> /\ SKIPPED_TOOLS = vr.before
        /\ vr.choice \notin {"1", "2", "3"} =>
             ~Executed /\ vr.rc = 1 /\ SKIPPED_TOOLS = vr.before

\* the operator accepted the risk and the altered script ran
C17_Witness ==
    /\ Mismatch /\ vr.name = "ubs" /\ ~vr.yes
    /\ vr.choice = "3"
    /\ vr.content = "altered"
    /\ vr.executed = <<"altered">>

\* C18: when the fetch fails the call returns failure for every tool: no
\* script runs, handle_checksum_mismatch is not called, and SKIPPED_TOOLS is
\* left as it was.
C18_FetchFailureFatal ==
    (nverify > 0 /\ ~vr.fetched) =>
        /\ vr.rc = 1
        /\ ~Executed
        /\ ~vr.consulted
        /\ SKIPPED_TOOLS = vr.before

\* the fetch failed for a recommended tool in automated mode, after another
\* tool had been skipped
C18_Witness ==
    /\ nverify = 2 /\ ~vr.fetched
    /\ vr.name = "ntm" /\ vr.yes
    /\ vr.before = <<"ubs">>
    /\ vr.rc = 1

(***************************************************************************)
(* Engine claims on failure, write failure and unreadable state.           *)
(***************************************************************************)
\* C13: an invocation that follows a halt on a failure of phase n, with
\* phases 1..n-1 completed, calls the function of phase n first (the
\* operator accepting the resume).
C13_ResumeAtFailedPhase ==
    (hist.prev_failed # 0 /\ ~hist.declined /\ Len(hist.invoked) > 0)
        => hist.invoked[1] = hist.prev_failed

\* C14: when the engine has halted on a failing step, the state file records
\* the failed phase, the description of the failing step and the error text
\* try_step captured.
C14_FailureRecorded ==
    (Returned /\ rc = "1" /\ hist.failed # 0 /\ ~hist.unsaved) =>
        /\ disk.failed_phase = hist.failed
        /\ disk.failed_step = sh.CURRENT_STEP
        /\ sh.CURRENT_STEP # NoText
        /\ disk.failed_error = sh.LAST_ERROR
        /\ sh.LAST_ERROR # NoText

\* C15: once a save_state has failed, the engine has stopped.
C15_WriteFailureStops ==
    hist.unsaved => pc = "off"

\* C16 as stated: started on a state file that does not parse, the engine
\* calls no phase function.
C16_CorruptStateHalts ==
    hist.corrupt => hist.invoked = <<>>

\* C16 as the code has it: started on a state file that does not parse, the
\* engine reads no completed phase from it, does not ask about a resume, and
\* starts at phase 1.
C16_CorruptStateStartsFresh ==
    hist.corrupt =>
        /\ hist.resumed = {}
        /\ ~hist.declined
        /\ pc \notin {"off", "init_state", "main_resume"} =>
             sh.COMPLETED_PHASES = [i \in 1..Len(sh.COMPLETED_PHASES) |-> i]
        /\ Len(hist.invoked) > 0 => hist.invoked[1] = 1

\* phase 1, completed by an earlier invocation, is called again after a
\* start on an unparsable file
C16_Witness ==
    /\ hist.corrupt
    /\ hist.invoked = <<1>>
    /\ pc = "phase_fn"
    /\ 1 \in hist.succeeded

(***************************************************************************)
(* Validation claims.                                                      *)
(***************************************************************************)
Validated == validation # NotValidated

IdsOf(modules) == {modules[i].id : i \in 1..Len(modules)}

UniqueIds(modules) == \A i, j \in 1..Len(modules) : i # j => modules[i].id # modules[j].id

DependenciesExist(modules) ==
    \A i \in 1..Len(modules) : Range(modules[i].dependencies) \subseteq IdsOf(modules)

\* the ids that those of S depend on, over the modules' dependency lists
DependsOn(modules, S) ==
    UNION {Range(modules[i].dependencies) : i \in {j \in 1..Len(modules) : modules[j].id \in S}}

RECURSIVE Reachable(_, _)
Reachable(modules, S) ==
    LET T == S \cup DependsOn(modules, S) IN
    IF T = S THEN S ELSE Reachable(modules, T)

\* some module depends on itself, directly or through others
HasDependencyCycle(modules) ==
    \E id \in IdsOf(modules) : id \in Reachable(modules, DependsOn(modules, {id}))

\* some module depends on a module of a later phase
DependsOnLaterPhase(modules) ==
    \E i, j \in 1..Len(modules) :
        /\ modules[j].id \in Range(modules[i].dependencies)
        /\ modules[j].phase > modules[i].phase

\* C19: validateManifest returns valid exactly when the ids are unique, every
\* dependency names a module of the manifest and no module depends on itself
\* through a cycle; when it returns invalid it reports at least one error.
C19_ValidIffWellFormed ==
    Validated =>
        /\ validation.valid <=>
             /\ UniqueIds(data)
             /\ DependenciesExist(data)
             /\ ~HasDependencyCycle(data)
        /\ ~validation.valid => Len(validation.errors) >= 1

\* three modules with unique ids and known dependencies, rejected for a
\* cycle between the second and the third only
C19_Witness ==
    /\ Validated
    /\ Len(data) = 3 /\ UniqueIds(data) /\ DependenciesExist(data)
    /\ data[1].dependencies = <<>>
    /\ data[2].dependencies = <<data[3].id>>
    /\ data[3].dependencies = <<data[2].id>>
    /\ ~validation.valid
    /\ Len(validation.errors) = 1

\* C20: validateManifest rejects every manifest in which a module depends on
\* a module of a later phase.
C20_LaterPhaseDependencyRejected ==
    (Validated /\ DependsOnLaterPhase(data)) => ~validation.valid

\* the phases along a plan never go down
PhasesNonDecreasing(man, plan) ==
    \A i \in 1..Len(plan) : \A j \in i..Len(plan) : man.phase[plan[i]] <= man.phase[plan[j]]

\* C21: for every manifest that validateManifest accepts, the phases of the
\* modules of a resolved plan are non-decreasing along the plan.
C21_PhasesNonDecreasing ==
    (HelpersCalled /\ sel.rc = 0 /\ validateManifest(ManifestModules(manifest)).valid)
        => PhasesNonDecreasing(manifest, sel.ACFS_EFFECTIVE_PLAN)

\* C22: the call fails and leaves no plan when an --only id is unknown, when
\* (without --only) an --only-phase value has no module, or when a --skip id
\* is unknown; the first two are reported as such.
C22_UnknownSelectionRejected ==
    HelpersCalled =>
        /\ ~(Range(input.ONLY_MODULES) \subseteq ModuleSet)
               => sel.rc = 1 /\ sel.err.kind = "unknown-only"
        /\ (Len(input.ONLY_MODULES) = 0
               /\ ~(Range(input.ONLY_PHASES) \subseteq phase_exists(manifest)))
               => sel.rc = 1 /\ sel.err.kind = "unknown-phase"
        /\ ~(Range(input.SKIP_MODULES) \subseteq ModuleSet)
               => sel.rc = 1 /\ sel.err.kind \in {"unknown-only", "unknown-phase",
                                                  "unknown-skip"}
        /\ ~InputKnown => sel.ACFS_EFFECTIVE_PLAN = <<>> /\ sel.ACFS_EFFECTIVE_RUN = {}

\* --only-phase 3 on a manifest whose modules are in phases 1 and 2
C22_Witness ==
    /\ HelpersCalled
    /\ input.ONLY_MODULES = <<>> /\ input.ONLY_PHASES = <<3>>
    /\ sel.rc = 1 /\ sel.err.kind = "unknown-phase"
    /\ sel.ACFS_EFFECTIVE_PLAN = <<>>

\* C23: after a failed call of acfs_resolve_selection the plan is empty and
\* should_run_module is false for every module, also when the call before it
\* in the same process had produced a plan.
C23_FailureSelectsNothing ==
    (resolver = "install_helpers" /\ ncalls > 0 /\ sel.rc # 0)
        => /\ sel.ACFS_EFFECTIVE_PLAN = <<>>
           /\ \A m \in ModuleSet \cup {UnknownModule} : ~should_run_module(m)

\* a first call produced a plan, the second call (another --skip list) failed
C23_Witness ==
    /\ resolver = "install_helpers" /\ ncalls = 2 /\ sel.rc = 1
    /\ prev # <<>> /\ prev[1].rc = 0 /\ prev[1].ACFS_EFFECTIVE_PLAN # <<>>
    /\ sel.err.kind \in {"unknown-skip", "depends-on-skipped"}
    /\ sel.ACFS_EFFECTIVE_PLAN = <<>>

\* C28: with --no-deps and a successful call the plan is exactly the start-set
\* modules that are not skipped, in manifest order, no dependency is added,
\* and the warning is logged.
C28_NoDepsPlanIsKeptStart ==
    (HelpersCalled /\ input.NO_DEPS /\ sel.rc = 0)
        => /\ sel.ACFS_EFFECTIVE_PLAN = Restrict(ACFS_MODULES_IN_ORDER, KeptStart)
           /\ sel.ACFS_EFFECTIVE_RUN = KeptStart
           /\ sel.warned

\* --only agents.claude --no-deps: its dependency lang.bun is not added
C28_Witness ==
    /\ HelpersCalled /\ input.NO_DEPS /\ sel.rc = 0
    /\ input.ONLY_MODULES = <<"agents.claude">>
    /\ manifest.deps["agents.claude"] = <<"lang.bun">>
    /\ sel.ACFS_EFFECTIVE_PLAN = <<"agents.claude">>
    /\ sel.warned

\* C30: the chain reported with a skip/dependency conflict starts at a kept
\* start-set module, continues from each id to one of its direct dependencies,
\* and ends at a skipped module.
C30_ChainIsDependencyPath ==
    (HelpersCalled /\ sel.err.kind = "depends-on-skipped")
        => LET chain == sel.err.chain IN
           /\ Len(chain) >= 2
           /\ chain[1] \in KeptStart
           /\ chain[1] = sel.err.module
           /\ \A i \in 1..(Len(chain) - 1) :
                  chain[i + 1] \in Range(DepsOf(manifest, chain[i]))
           /\ chain[Len(chain)] \in SkipSet(input)
           /\ chain[Len(chain)] = sel.err.dep

\* agents.claude -> lang.bun -> base.system with base.system skipped
C30_Witness ==
    /\ HelpersCalled /\ sel.rc = 1
    /\ input.SKIP_MODULES = <<"base.system">>
    /\ sel.err.chain = <<"agents.claude", "lang.bun", "base.system">>

\* C29: the write of save_state called by complete_phase for phase n leaves a
\* state file that lists n as completed, with current phase n + 1, an empty
\* current step and null failure fields.
C29_CompletionPersisted ==
    [][(pc = "complete_phase_save" /\ wr = "open" /\ disk' # disk)
        => /\ disk'.kind = "state"
           /\ phase_num \in Range(disk'.completed_phases)
           /\ disk'.current_phase = phase_num + 1
           /\ disk'.current_step = NoText
           /\ disk'.failed_phase = 0
           /\ disk'.failed_step = NoText
           /\ disk'.failed_error = NoText]_vars

\* the invocation found the file of a failed run, started again, and has just
\* written the completion of phase 1
C29_Witness ==
    /\ pc = "run_phase" /\ phase_num = 2
    /\ hist.corrupt
    /\ hist.invoked = <<1>>
    /\ disk.kind = "state"
    /\ disk.completed_phases = <<1>>
    /\ disk.current_phase = 2
    /\ disk.current_step = NoText
    /\ disk.failed_phase = 0

(***************************************************************************)
(* Vocabulary of the module-function claims.                               *)
(***************************************************************************)
\* the runner calls of this call that failed, among the given kinds of action
FailedActions(kinds) ==
    {i \in 1..Len(fctx) : fctx[i].rc # 0 /\ fctx[i].kind \in kinds}

Logged(level) == \E j \in 1..Len(flog) : flog[j].level = level

\* a dry-run line about the command
DryRunLogged(cmd) ==
    \E j \in 1..Len(flog) :
        flog[j].about = cmd /\ flog[j].text \in {"dry-run: install", "dry-run: would run"}

\* the installed check of this call found the module
AlreadyInstalled ==
    fctx # <<>> /\ fctx[1].kind = "installed_check" /\ fctx[1].rc = 0

InstallCommands(m) ==
    {m.steps[i].cmd : i \in {j \in 1..Len(m.steps) : m.steps[j].kind = "install"}}

\* C24 as stated: an optional module whose install or verify action failed
\* is warned about, recorded as skipped, and its function returns success; a
\* module that is not optional returns failure.
C24_OptionalFailureRecorded ==
    (fpc = "returned" /\ fn # "none" /\ ModuleFunction(fn).pattern = "generated"
        /\ FailedActions({"install", "verify"}) # {})
        => IF ModuleFunction(fn).optional
           THEN /\ Logged("warn")
                /\ ModuleFunction(fn).module_id \in SKIPPED_MODULES
                /\ frc = 0
           ELSE frc = 1

\* C24: an optional module whose install or verify action failed is warned
\* about and its function returns success; it is recorded as skipped when
\* record_skipped_tool or state_tool_skip is defined, and by nothing when
\* neither is; a failing verify that is itself marked optional is warned about
\* and the function goes on to its end; a module that is not optional returns
\* failure.
C24_OptionalFailureDowngraded ==
    (fpc = "returned" /\ fn # "none" /\ ModuleFunction(fn).pattern = "generated")
        => /\ FailedActions({"install", "verify"}) # {} =>
                IF ModuleFunction(fn).optional
                THEN /\ Logged("warn")
                     /\ frc = 0
                     /\ env.recorder # "none"
                            => ModuleFunction(fn).module_id \in SKIPPED_MODULES
                     /\ env.recorder = "none" => SKIPPED_MODULES = {}
                ELSE frc = 1 /\ Logged("error")
           /\ (FailedActions({"verify (optional)"}) # {}
                  /\ FailedActions({"install", "verify"}) = {})
                => Logged("warn") /\ Logged("success") /\ frc = 0

\* apt-get update of db.postgres18 failed: warning, skip recorded, return 0
C24_Witness ==
    /\ fpc = "returned" /\ fn = "install_db_postgres18"
    /\ Len(fctx) = 2 /\ fctx[2].rc # 0 /\ fctx[2].executed
    /\ env.recorder = "state_tool_skip"
    /\ Logged("warn")
    /\ SKIPPED_MODULES = {"db.postgres18"}
    /\ frc = 0

\* C25 as stated: with DRY_RUN=true no install or verify action is passed to a
\* runner, each install action is logged instead, and the function returns
\* success.
C25_DryRunLogsAndSucceeds ==
    (DRY_RUN /\ fn # "none")
        => /\ \A i \in 1..Len(fctx) : fctx[i].kind = "installed_check"
           /\ fpc = "returned" =>
                /\ frc = 0
                /\ AlreadyInstalled
                      \/ \A cmd \in InstallCommands(ModuleFunction(fn)) : DryRunLogged(cmd)

\* C25: with DRY_RUN=true no install or verify action is passed to a runner;
\* a function whose contract check passed logs each install action instead and
\* returns success (the documented function returns success without those
\* lines when its installed check found the module); a function whose contract
\* check failed returns failure and has logged nothing.
C25_DryRunAfterContract ==
    (DRY_RUN /\ fn # "none")
        => /\ \A i \in 1..Len(fctx) : fctx[i].kind = "installed_check"
           /\ fpc = "returned" =>
                IF ModuleFunction(fn).pattern = "generated" /\ ~env.contract
                THEN frc = 1 /\ flog = <<>>
                ELSE /\ frc = 0
                     /\ AlreadyInstalled
                           \/ \A cmd \in InstallCommands(ModuleFunction(fn)) :
                                  DryRunLogged(cmd)

\* install_db_postgres18 in dry-run mode: log_step, five dry-run lines and
\* log_success, no runner call, return 0
C25_Witness ==
    /\ DRY_RUN /\ fn = "install_db_postgres18" /\ fpc = "returned"
    /\ fctx = <<>>
    /\ Len(flog) = 7
    /\ \A cmd \in InstallCommands(install_db_postgres18) : DryRunLogged(cmd)
    /\ frc = 0

\* C26: in the documented module function the installed check is the first
\* runner call, with DRY_RUN=true too; when it succeeds the function returns
\* success and has passed no other action to a runner.
C26_InstalledCheckFirst ==
    (fn # "none" /\ ModuleFunction(fn).pattern = "documented" /\ fpc # "entry")
        => /\ fctx # <<>>
           /\ fctx[1].kind = "installed_check"
           /\ \A i \in 2..Len(fctx) : fctx[i].kind # "installed_check"
           /\ fctx[1].rc = 0 => fpc = "returned" /\ frc = 0 /\ Len(fctx) = 1

\* install_lang_bun in dry-run mode with bun installed: the check ran as the
\* target user and the function returned 0
C26_Witness ==
    /\ DRY_RUN /\ fn = "install_lang_bun" /\ fpc = "returned"
    /\ Len(fctx) = 1
    /\ fctx[1].kind = "installed_check" /\ fctx[1].executed /\ fctx[1].rc = 0
    /\ frc = 0

\* C27: run_as_root_shell called by a caller that is not root, with SUDO empty
\* and no sudo command, and run_as_target_shell called with no run_as_target
\* defined, return 1 with their error message and start no shell; and a body
\* that is executed runs as root for run_as_root_shell, as the target user
\* for run_as_target_shell.
C27_NoWrongIdentity ==
    \A i \in 1..Len(fctx) :
        LET e == fctx[i] IN
        /\ (e.runner = "run_as_root_shell" /\ env.EUID # 0 /\ env.SUDO = "" /\ ~env.sudo)
              => /\ e.rc = 1 /\ ~e.executed
                 /\ e.error = "run_as_root_shell requires root or sudo"
        /\ (e.runner = "run_as_target_shell" /\ ~env.run_as_target)
              => /\ e.rc = 1 /\ ~e.executed
                 /\ e.error = "run_as_target_shell requires run_as_target"
        /\ e.executed =>
              e.identity = IF e.runner = "run_as_root_shell" THEN "root" ELSE "target_user"

\* install_network_tailscale called by a user who is not root, without sudo:
\* the install action was refused and the function returned 1
C27_Witness ==
    /\ fn = "install_network_tailscale" /\ fpc = "returned"
    /\ env.EUID = 1000 /\ env.SUDO = "" /\ ~env.sudo
    /\ Len(fctx) = 1
    /\ fctx[1].runner = "run_as_root_shell"
    /\ fctx[1].rc = 1 /\ ~fctx[1].executed
    /\ frc = 1

\* the dependencies the module map has for an id (the last module of that id)
MapDependencies(modules, id) ==
    IF moduleMapHas(modules, id) THEN Range(moduleMapGet(modules, id).dependencies) ELSE {}

RECURSIVE MapReachable(_, _)
MapReachable(modules, S) ==
    LET T == S \cup UNION {MapDependencies(modules, id) : id \in S} IN
    IF T = S THEN S ELSE MapReachable(modules, T)

\* the dependency graph of the module map has a cycle
MapHasCycle(modules) ==
    \E id \in IdsOf(modules) : id \in MapReachable(modules, MapDependencies(modules, id))

CycleErrors == SelectSeq(validation.errors, LAMBDA e : e.kind = "cycle")

\* C31: on every manifest detectDependencyCycles ends with one cycle error
\* when the dependency graph has a cycle (a self-dependency too) and with none
\* when it has not; in the chain of the error every id depends on the next
\* and the last on the first.
C31_OneRealCycleReported ==
    Validated =>
        /\ Len(CycleErrors) <= 1
        /\ MapHasCycle(data) <=> Len(CycleErrors) = 1
        /\ Len(CycleErrors) = 1 =>
              LET chain == CycleErrors[1].value IN
              /\ Len(chain) >= 1
              /\ \A i \in 1..Len(chain) :
                    chain[(i % Len(chain)) + 1] \in MapDependencies(data, chain[i])

\* the first module leads into a cycle between the second and the third:
\* the chain is the cycle, without the first module
C31_Witness ==
    /\ Validated
    /\ Len(data) = 3 /\ UniqueIds(data)
    /\ data[1].dependencies = <<data[2].id>>
    /\ data[2].dependencies = <<data[3].id>>
    /\ data[3].dependencies = <<data[2].id>>
    /\ Len(CycleErrors) = 1
    /\ CycleErrors[1].value = <<data[2].id, data[3].id>>

\* C32: a call of verify_and_run_with_recovery runs a script only if the hash
\* of the fetched content equals the expected hash, or the tool is not
\* critical, --yes is off and the operator answered "3"; what it runs is the
\* fetched content; and a call that appended its tool to SKIPPED_TOOLS ran
\* nothing.
C32_ExecutedOnlyIfVerifiedOrAccepted ==
    nverify > 0 =>
        /\ Executed =>
              /\ vr.fetched
              /\ vr.executed = <<vr.content>>
              /\ \/ calculate_sha256(vr.content) = vr.expected
                 \/ ~Critical(vr.name) /\ ~vr.yes /\ vr.choice = "3"
        /\ SKIPPED_TOOLS # vr.before =>
              ~Executed /\ SKIPPED_TOOLS = Append(vr.before, vr.name)

\* the second call skipped ubs on the operator's answer "1" and ran nothing
C32_Witness ==
    /\ nverify = 2 /\ Mismatch /\ vr.name = "ubs" /\ ~vr.yes /\ vr.choice = "1"
    /\ vr.content = "altered"
    /\ SKIPPED_TOOLS = Append(vr.before, "ubs")
    /\ ~Executed

\* the phases a state file lists as completed, without the empty entry
ListedPhases(file) == ReadCompleted(file.completed_phases)

\* C35: whenever the state file holds a state, its completed-phase list has
\* no duplicate and is exactly 1, 2, ..., k for some k from 0 to the number of
\* phases (the empty list for k = 0).
C35_CompletedListIsPrefix ==
    disk.kind \in {"state", "invalid"} =>
        /\ NoDup(disk.completed_phases)
        /\ \E k \in 0..NumPhases : disk.completed_phases = [i \in 1..k |-> i]

\* what does hold: the phases listed are 1, 2, ..., k, each once
C35_ListedPhasesArePrefix ==
    disk.kind \in {"state", "invalid"} =>
        \E k \in 0..NumPhases : ListedPhases(disk) = [i \in 1..k |-> i]

\* a resumed invocation has written the list 1, 2 after a crash
C35_ResumedPrefix ==
    /\ runs >= 2 /\ hist.resumed = {1}
    /\ disk.kind = "state" /\ disk.completed_phases = <<1, 2>>

\* C36: after every call of acfs_resolve_selection (install_helpers.sh) that
\* returned 0, the first call or a later one with other inputs, the keys of
\* ACFS_EFFECTIVE_RUN are the elements of ACFS_EFFECTIVE_PLAN, the plan lists
\* no module twice, and every module of the manifest has an inclusion reason
\* and no exclusion reason when it is in the plan, an exclusion reason and no
\* inclusion reason when it is not.
C36_OutputsConsistent ==
    (HelpersCalled /\ sel.rc = 0) =>
        /\ sel.ACFS_EFFECTIVE_RUN = Range(sel.ACFS_EFFECTIVE_PLAN)
        /\ NoDup(sel.ACFS_EFFECTIVE_PLAN)
        /\ \A m \in ModuleSet :
              IF m \in Range(sel.ACFS_EFFECTIVE_PLAN)
              THEN /\ sel.ACFS_PLAN_REASON[m] # Unset
                   /\ sel.ACFS_PLAN_EXCLUDE_REASON[m] = Unset
              ELSE /\ sel.ACFS_PLAN_REASON[m] = Unset
                   /\ sel.ACFS_PLAN_EXCLUDE_REASON[m] # Unset

\* the second call succeeded on other inputs than the first, with another
\* plan, and its plan holds a module that is disabled by default and came in
\* as a dependency
C36_Witness ==
    /\ HelpersCalled /\ ncalls = 2 /\ sel.rc = 0
    /\ prev # <<>> /\ prev[1].rc = 0
    /\ prev[1].ACFS_EFFECTIVE_PLAN # sel.ACFS_EFFECTIVE_PLAN
    /\ \E m \in sel.ACFS_EFFECTIVE_RUN :
          /\ ~manifest.enabled[m]
          /\ Len(sel.ACFS_PLAN_REASON[m]) >= 1
          /\ sel.ACFS_PLAN_REASON[m][1] = "dependency of"
    /\ \E m \in ModuleSet : m \notin sel.ACFS_EFFECTIVE_RUN

\* the command line names module ids and phases only
PlainInput == input.SKIP_TAGS = <<>> /\ input.SKIP_CATEGORIES = <<>>

\* what the resolver of the selection library returns on the same manifest
\* and the same input, called with no earlier plan
LibraryOutcome == selection_resolve(manifest, input, NoOutcome)

\* C38: on a manifest and an input without skip tags and skip categories, the
\* resolver of install_helpers.sh and the resolver of the selection library
\* both succeed or both fail, and when they succeed they give the same
\* ACFS_EFFECTIVE_PLAN in the same order, with --no-deps and without it.
C38_ResolversAgree ==
    (HelpersCalled /\ PlainInput) =>
        /\ sel.rc = LibraryOutcome.rc
        /\ sel.rc = 0 => sel.ACFS_EFFECTIVE_PLAN = LibraryOutcome.ACFS_EFFECTIVE_PLAN

\* what does hold: without --no-deps the two agree
C38_AgreeWithClosure ==
    (HelpersCalled /\ PlainInput /\ ~input.NO_DEPS) =>
        /\ sel.rc = LibraryOutcome.rc
        /\ sel.rc = 0 => sel.ACFS_EFFECTIVE_PLAN = LibraryOutcome.ACFS_EFFECTIVE_PLAN

\* --only agents.claude --skip base.system --no-deps on the chain
\* agents.claude -> lang.bun -> base.system: install_helpers.sh fails, the
\* library plans agents.claude
C38_TransitiveSkipDisagreement ==
    /\ HelpersCalled /\ PlainInput /\ input.NO_DEPS
    /\ input.ONLY_MODULES = <<"agents.claude">> /\ input.ONLY_PHASES = <<>>
    /\ input.SKIP_MODULES = <<"base.system">>
    /\ manifest.deps["agents.claude"] = <<"lang.bun">>
    /\ manifest.deps["lang.bun"] = <<"base.system">>
    /\ manifest.deps["base.system"] = <<>>
    /\ sel.rc = 1 /\ sel.err.kind = "depends-on-skipped"
    /\ LibraryOutcome.rc = 0
    /\ LibraryOutcome.ACFS_EFFECTIVE_PLAN = <<"agents.claude">>

\* no oca invocation is between starting a server and writing the pid file
NoStartInProgress == \A p \in Shells : oca_pc[p] # "write_pid"

\* C37: for the project directory no server is started while another server
\* of the project is running, so at most one runs at a time; and once the
\* invocation that started a server has written the pid file, the pid file
\* names the running server.
C37_AtMostOneServer ==
    /\ \A i \in 1..Len(servers) : servers[i].others = {}
    /\ Cardinality(live) <= 1
    /\ (NoStartInProgress /\ live # {}) => pid_file \in live

\* two shells passed the check before either had written the pid file: two
\* servers run, and the pid file names the second only
C37_TwoServersStarted ==
    /\ Len(servers) = 2
    /\ servers[1].by # servers[2].by
    /\ servers[2].others = {1}
    /\ live = {1, 2}
    /\ NoStartInProgress
    /\ pid_file = 2

\* with the second server gone (the port was taken), the pid file names a dead
\* process while the first server runs, and a third invocation starts another
C37_ThirdServerStarted ==
    /\ Len(servers) = 3
    /\ 1 \in servers[3].others
    /\ 1 \in live /\ 2 \notin live

\* what does hold: an invocation starts a server only after a check that
\* found no running server recorded, and the pid it writes is the pid of the
\* server it started
C37_WritesOwnServer ==
    \A p \in Shells :
        oca_pc[p] = "write_pid" =>
            \E i \in 1..Len(servers) : servers[i].pid = server_pid[p] /\ servers[i].by = p

\* C33: while a dry run is going on or has ended, a state file lists as
\* completed the phases it listed when the dry run started, no other; and a
\* real run that has returned 0 leaves every phase with its work performed
\* outside a dry run.
C33_DryRunKeepsCompletedPhases ==
    /\ (sh.DRY_RUN /\ runs > 0 /\ disk.kind = "state") =>
          Range(ListedPhases(disk)) = hist.resumed
    /\ (pc = "off" /\ rc = "0" /\ ~sh.DRY_RUN) =>
          \A n \in 1..NumPhases : n \in hist.performed

\* a dry run on a fresh machine has returned 0: the state file lists every
\* phase as completed and no phase function has done its work
C33_DryRunMarkedCompleted ==
    /\ runs = 1 /\ sh.DRY_RUN /\ pc = "off" /\ rc = "0"
    /\ disk.kind = "state"
    /\ disk.completed_phases = [i \in 1..NumPhases |-> i]
    /\ hist.performed = {}

\* the real run after it has returned 0 without calling one phase function
C33_RealRunSkippedEverything ==
    /\ runs = 2 /\ ~sh.DRY_RUN /\ pc = "off" /\ rc = "0"
    /\ hist.resumed = 1..NumPhases
    /\ hist.invoked = <<>>
    /\ hist.performed = {}

\* the tools a state file lists as skipped, without the empty entry
ListedSkips(file) == {t \in Range(file.skipped_tools) : t # ""}

\* C34: a tool that some write of the state file has listed as skipped is
\* listed as skipped in every state the file holds afterwards, in the same
\* invocation and in the invocations that follow it.
C34_SkippedToolStaysPersisted ==
    disk.kind = "state" => hist.skips_written \subseteq ListedSkips(disk)

\* the run before recorded ubs as skipped and was killed; this run resumed at
\* phase 2 and its first write lists no skipped tool
C34_SkipLostOnResume ==
    /\ runs = 2 /\ pc = "call_phase_fn" /\ phase_num = 2
    /\ hist.resumed = {1}
    /\ hist.skips_written = {"ubs"}
    /\ sh.SKIPPED_TOOLS = <<>>
    /\ disk.kind = "state"
    /\ disk.completed_phases = <<1>>
    /\ disk.skipped_tools = <<"">>

====
